---- MODULE Spec2Model ----
(***************************************************************************)
(* Materials-KnowledgeBase: the generation-API retry loop, the bounded     *)
(* fan-out summarization, the structured (chembrain) and semantic          *)
(* (stainless_steel) query handlers, and the FAISS vector store.           *)
(*                                                                         *)
(* The specifications share the variables:                                 *)
(*   SpecLLM    one call of call_llm_api, one loop iteration per step      *)
(*   SpecQuery  one query of StructuredSearchSystem.query or RAGSystem.query*)
(*   SpecIndex  build/add/save/load sequences on one FAISSVectorStore      *)
(*   SpecSearch build_index, search and retrieve on one store              *)
(*   SpecChunk  one call of TextChunker.chunk_text, one paragraph per step *)
(*   SpecTables the multi-table loop of StructuredSearchSystem.query       *)
(*   SpecPool   the executor of generate_literature_summaries_parallel,    *)
(*              two queries at a time; SpecPoolFair adds the scheduling    *)
(***************************************************************************)
EXTENDS Integers, Sequences, FiniteSets, TLC

VARIABLES
    call,                  \* tools/utils.py call_llm_api: the locals of one call
    system,                \* which server handles the query: "structured" | "rag" | "none"
    pc,                    \* position of the query handler
    filters,               \* result of _convert_query_to_filters
    query_data_dict,       \* server.py:428, the keys that carry a row
    epoxy_entries,         \* server.py:472, keys of rows without DOI
    dois,                  \* server.py:461/465
    dois_with_fulltext,    \* server.py:502
    dois_without_fulltext, \* server.py:503
    file_ids,              \* argument of generate_literature_summaries_parallel
    literature_data,       \* utils.py:151
    pending,               \* futures submitted and not yet collected
    literature_summaries,  \* utils.py:164 "summaries", server.py:533/155
    summary_texts,         \* server.py:507/175
    result,                \* the QueryResult returned, or NoResult
    escaped,               \* an exception left query()
    n_db_queries,          \* relational queries issued
    n_probes,              \* fulltext fetches issued
    task_call,             \* history: the call_llm_api run of the task collected last
    probe_has,             \* history: ids the availability probe saw text for
    refetch_empty,         \* history: ids whose later fetch came back empty
    other_failure,         \* history: a stage other than summarization raised
    chunks,                \* stainless_steel server.py:139, what retrieve returned
    index,                 \* FAISSVectorStore.index: NoIndex or the vectors held
    chunk_ids,             \* FAISSVectorStore.chunk_ids
    index_file,            \* the vector artifact at index_path
    metadata_file,         \* the id-list artifact at metadata_path
    last_op,               \* history: the last store operation and how it ended
    db_chunks,             \* ChunkDatabase: chunk ids that have a row
    faiss_rejects_k0,      \* the installed FAISS build rejects search with k = 0
    store_call,            \* history: the last call on the store or retriever, its arguments and outcome
    chunker,               \* core/chunker.py chunk_text: its arguments and locals
    table_merge,           \* chembrain server.py:425-461: the locals of the loop over the tables
    pool,                  \* utils.py:163-195: the executor of one batch and its tasks
    runs,                  \* chembrain server.py:425-543 run twice on the same inputs
    translation,           \* chembrain server.py:125-187 and 425-447: a response and the filters made of it
    digest                 \* chembrain server.py:276-398 and 585-594: a row and the digest made of it

vars == <<call, system, pc, filters, query_data_dict,
          epoxy_entries, dois, dois_with_fulltext, dois_without_fulltext,
          file_ids, literature_data, pending, literature_summaries,
          summary_texts, result, escaped, n_db_queries, n_probes, task_call, probe_has, refetch_empty, other_failure,
          chunks, index, chunk_ids, index_file, metadata_file, last_op, db_chunks,
          faiss_rejects_k0, store_call, chunker, table_merge, pool,
          runs, translation, digest>>

llm_vars == <<call>>

query_vars == <<system, pc, filters, query_data_dict,
                epoxy_entries, dois, dois_with_fulltext, dois_without_fulltext,
                file_ids, literature_data, pending, literature_summaries,
                summary_texts, result, escaped, n_db_queries, n_probes,
                task_call, probe_has, refetch_empty, other_failure>>

rag_vars == <<chunks>>

store_vars == <<index, chunk_ids>>

disk_vars == <<index_file, metadata_file>>

env_vars == <<db_chunks, faiss_rejects_k0>>

\* variables of the components only some specifications run
side_vars == <<store_call, chunker, table_merge, pool, runs, translation, digest>>

chunker_vars == <<chunker>>

merge_vars == <<table_merge>>

pool_vars == <<pool>>

runs_vars == <<runs>>

translation_vars == <<translation>>

digest_vars == <<digest>>

-----------------------------------------------------------------------------
(* Bounds of the model *)

\* largest max_retries argument a call of call_llm_api is started with
MaxRetriesArg == 3

\* number of distinct document identifiers the relational store can return
MaxDocs == 3

\* server.py:67 sets MAX_FULLTEXT_SUMMARIES = 20; the model scales the cap
\* down so that a candidate set of MaxDocs identifiers can exceed it
MAX_FULLTEXT_SUMMARIES == 2

-----------------------------------------------------------------------------
(* Program constants *)

\* common/constants.py StatusCode
SUCCESS == 0
NO_RESULTS == 1
NO_LITERATURE == 2
REPORT_FAILED == 3
OTHER_ERROR == 4

\* domains/*/server/config.py
LLM_MAX_RETRIES == 3

-----------------------------------------------------------------------------
(* tools/utils.py: call_llm_api *)

\* What one requests.post + raise_for_status + json + ['choices'] can do.
\* raise_for_status turns every 4xx/5xx answer into requests.HTTPError, a
\* RequestException; a 200 answer without 'choices' raises KeyError.
RequestExceptionKinds ==
    {"timeout", "connection_error", "http_401", "http_422", "http_500"}

OtherExceptionKinds == {"key_error"}

Responses == {"ok"} \cup RequestExceptionKinds \cup OtherExceptionKinds

\* except requests.exceptions.RequestException (utils.py:64)
IsRequestException(resp) == resp \in RequestExceptionKinds

\* a constant wait in place of the linear one
BackoffConstant(attempt) == 1

\* time.sleep(1 * attempt) (utils.py:68)
BackoffDelay(attempt) == 1 * attempt

\* if attempt < max_retries (utils.py:66)
SleepsAfter(attempt, max_retries) == attempt < max_retries

\* a loop that runs one iteration more
LoopContinuesOneMore(attempt, max_retries) == attempt <= max_retries + 1

\* for attempt in range(1, max_retries + 1) (utils.py:53)
LoopContinues(attempt, max_retries) == attempt <= max_retries

\* the locals at entry (utils.py:52)
NewCall(max_retries) ==
    [pc |-> "loop", max_retries |-> max_retries, attempt |-> 1,
     last_exception |-> "None", ret |-> "None", exc |-> "None",
     sleeps |-> <<>>, log |-> <<>>]

\* one iteration of the retry loop (utils.py:53-73); log records the answer
LLMStep(st, resp) ==
    IF resp = "ok"
    THEN [st EXCEPT !.pc = "returned", !.ret = "text", !.log = Append(@, resp)]
    ELSE IF IsRequestException(resp)
    THEN [st EXCEPT !.last_exception = resp,
                    !.sleeps = IF SleepsAfter(st.attempt, st.max_retries)
                               THEN Append(@, BackoffDelay(st.attempt))
                               ELSE @,
                    !.attempt = @ + 1,
                    !.log = Append(@, resp)]
    ELSE [st EXCEPT !.pc = "raised", !.exc = resp, !.log = Append(@, resp)]

\* raise last_exception (utils.py:76); raise None is a TypeError
LLMLoopExit(st) ==
    [st EXCEPT !.pc = "raised",
               !.exc = IF st.last_exception = "None" THEN "type_error"
                       ELSE st.last_exception]

IdleCall == [NewCall(0) EXCEPT !.pc = "idle"]

\* step: one request of the call in progress
LLMAttempt ==
    /\ call.pc = "loop"
    /\ LoopContinues(call.attempt, call.max_retries)
    /\ \E resp \in Responses : call' = LLMStep(call, resp)
    /\ UNCHANGED <<query_vars, rag_vars, store_vars, disk_vars, last_op, env_vars, side_vars>>

\* step: the loop ran out of attempts
LLMExhausted ==
    /\ call.pc = "loop"
    /\ ~LoopContinues(call.attempt, call.max_retries)
    /\ call' = LLMLoopExit(call)
    /\ UNCHANGED <<query_vars, rag_vars, store_vars, disk_vars, last_op, env_vars, side_vars>>

-----------------------------------------------------------------------------
(* Idle values of the components a specification does not run *)

NoResult == [summaries |-> <<>>, code |-> -1]
NoTaskCall == [file_id |-> 0, kind |-> "none", attempts |-> 0, failures |-> 0]
NoIndex == [built |-> FALSE, vecs |-> <<>>]
NoIndexFile == [exists |-> FALSE, vecs |-> <<>>]
NoMetadataFile == [exists |-> FALSE, ids |-> <<>>]

QueryIdle ==
    /\ system = "none" /\ pc = "idle"
    /\ filters = [kind |-> "none", ntables |-> 0]
    /\ query_data_dict = {} /\ epoxy_entries = {} /\ dois = <<>>
    /\ dois_with_fulltext = <<>> /\ dois_without_fulltext = <<>>
    /\ file_ids = <<>> /\ literature_data = <<>> /\ pending = {}
    /\ literature_summaries = <<>> /\ summary_texts = <<>>
    /\ result = NoResult /\ escaped = FALSE
    /\ n_db_queries = 0 /\ n_probes = 0
    /\ task_call = NoTaskCall
    /\ probe_has = {} /\ refetch_empty = {} /\ other_failure = FALSE
    /\ chunks = <<>>

StoreIdle ==
    /\ index = NoIndex /\ chunk_ids = <<>>
    /\ index_file = NoIndexFile /\ metadata_file = NoMetadataFile
    /\ last_op = [op |-> "init", exc |-> "None"]

EnvIdle == db_chunks = {} /\ faiss_rejects_k0 = FALSE

NoStoreCall ==
    [op |-> "none", embeddings |-> <<>>, w |-> 0, chunk_ids |-> <<>>,
     q |-> <<>>, k |-> 0, exc |-> "None", results |-> <<>>]

\* chunk_text not called
NoChunker ==
    [pc |-> "idle", text |-> <<>>, chunk_size |-> 0, overlap_size |-> 0,
     min_chunk_size |-> 0, paragraphs |-> <<>>, i |-> 0,
     current_chunk |-> <<>>, current_chunk_tokens |-> 0, current_start |-> 0,
     last_chunk_end |-> 0, chunks |-> <<>>,
     final_saved |-> FALSE]      \* history: line 185 ran

\* the loop over the tables not entered
NoTableMerge ==
    [pc |-> "idle", ntables |-> 0, all_dois |-> <<>>, query_data_dict |-> <<>>,
     dois |-> <<>>,
     returned |-> <<>>]          \* history: what _query_database returned, table by table

\* no batch running
NoPool == <<>>

\* no query run
NoRuns == [tables |-> <<>>, has |-> {}, fails |-> {}, run |-> <<>>]

\* no response translated
NoTranslation ==
    [pc |-> "idle", response |-> <<>>, filters |-> <<>>,
     executed |-> <<>>]          \* history: the calls of _query_database

\* no digest generated
NoDigest ==
    [pc |-> "idle", system |-> "none", query_data |-> <<>>,
     paper_metadata |-> <<>>, entry_data |-> <<>>, fields |-> <<>>,
     all_fields |-> <<>>]

SideIdle ==
    /\ store_call = NoStoreCall /\ chunker = NoChunker
    /\ table_merge = NoTableMerge /\ pool = NoPool
    /\ runs = NoRuns /\ translation = NoTranslation /\ digest = NoDigest

-----------------------------------------------------------------------------
(* Helpers on sequences and sets *)

Range(s) == {s[i] : i \in DOMAIN s}

\* every ordering of a finite set, as duplicate-free sequences
Perms(S) ==
    {s \in [1..Cardinality(S) -> S] : \A i, j \in DOMAIN s : i # j => s[i] # s[j]}

\* the elements of an integer set in ascending order
RECURSIVE Ascending(_)
Ascending(S) ==
    IF S = {} THEN <<>>
    ELSE LET m == CHOOSE x \in S : \A y \in S : x <= y
         IN <<m>> \o Ascending(S \ {m})

\* a slice that keeps everything
NoCap(s, n) == s

\* Python's s[:n]
Prefix(s, n) == IF Len(s) > n THEN SubSeq(s, 1, n) ELSE s

-----------------------------------------------------------------------------
(* tools/utils.py: generate_single_literature_summary *)

\* call_llm_api run to its end on the answers `script` gives, request by request
RECURSIVE RunCall(_, _)
RunCall(st, script) ==
    IF st.pc # "loop" THEN st
    ELSE IF ~LoopContinues(st.attempt, st.max_retries) THEN LLMLoopExit(st)
    ELSE IF script = <<>> THEN st
    ELSE RunCall(LLMStep(st, Head(script)), Tail(script))

call_llm_api(script, max_retries) == RunCall(NewCall(max_retries), script)

\* the answers the API may give to the requests of one call
Scripts(max_retries) == [1..(max_retries + 1) -> Responses]

\* utils.py:107-117: the result tuple, or the error text on any exception.
\* attempts and failures record the requests made and how many of them failed.
SummaryOf(r) ==
    [kind |-> IF r.pc = "returned" THEN "summary" ELSE "gen_error",
     attempts |-> Len(r.log),
     failures |-> Cardinality({i \in DOMAIN r.log : r.log[i] # "ok"})]

generate_single_literature_summary(script, max_retries) ==
    SummaryOf(call_llm_api(script, max_retries))

\* every result one summarization task can end with
SummaryOutcomes ==
    {generate_single_literature_summary(s, LLM_MAX_RETRIES) :
        s \in Scripts(LLM_MAX_RETRIES)}

-----------------------------------------------------------------------------
(* domains/chembrain/server/server.py: StructuredSearchSystem *)

\* DOIs are the positive integers 1..MaxDocs; the synthetic keys
\* "epoxy_<formulation_id>" (server.py:236) are negative integers
DOIs == 1..MaxDocs
EpoxyKeys == {-1}

\* k.startswith('epoxy_') (server.py:472)
IsEpoxyKey(k) == k < 0
TableCounts == {0, 1, 2}

\* What the translation request and the parse of its answer can give.
TranslationAnswers ==
    {"api_failure",      \* requests raised, or the answer has no 'choices'
     "not_json",         \* json.loads raised
     "json_scalar",      \* a number: 'tables' not in filters raises TypeError
     "json_empty",       \* {} or []
     "tables",           \* {'tables': [ {table_name, filters}, ... ]}
     "tables_malformed", \* {'tables': [...]} whose items are not objects
     "bare_filter",      \* {'type': ..} or {'filters': ..}
     "legacy_other"}     \* a non-empty list, or an object with other keys

\* server.py:125-191
convert_query_to_filters(answer, ntables) ==
    CASE answer \in {"api_failure", "not_json", "json_scalar"} ->
             [kind |-> "None", ntables |-> 0]
      [] answer = "json_empty" -> [kind |-> "empty", ntables |-> 0]
      [] answer = "tables" -> [kind |-> "tables", ntables |-> ntables]
      [] answer = "tables_malformed" -> [kind |-> "malformed", ntables |-> ntables]
      [] answer = "bare_filter" -> [kind |-> "tables", ntables |-> 1]
      [] answer = "legacy_other" -> [kind |-> "legacy", ntables |-> 0]

\* a test that lets every value through
TruthyAlways(f) == f.kind = f.kind

\* Python truthiness of the value returned (server.py:413)
Truthy(f) == f.kind \notin {"None", "empty"}

\* server.py:193-274 _query_database: (papers, keys of the rows); an error
\* answer or an exception gives ([], {}). keyed says whether the store's rows
\* carry a 'doi' field (server.py:228-231); rows without one are kept only
\* under an epoxy key (server.py:232-242).
DbFailure == [papers |-> <<>>, rows |-> {}]

TableResults(keyed) ==
    {DbFailure} \cup
    {[papers |-> Ascending(S),
      rows |-> (IF keyed THEN S ELSE {}) \cup E] :
        S \in SUBSET DOIs, E \in SUBSET EpoxyKeys}

\* server.py:427-458: the loop over filters['tables']
RECURSIVE ConcatPapers(_)
ConcatPapers(rs) ==
    IF rs = <<>> THEN <<>> ELSE Head(rs).papers \o ConcatPapers(Tail(rs))

MergedRows(rs) == UNION {rs[i].rows : i \in DOMAIN rs}

\* a handler that answers with the reserved code
ErrorCodeReport == REPORT_FAILED

\* the handler at server.py:626-631 / stainless_steel server.py:185-190
ErrorCode == OTHER_ERROR

Caught ==
    /\ result' = [summaries |-> <<>>, code |-> ErrorCode]
    /\ pc' = "done"
    /\ other_failure' = TRUE

Return(summaries, code) ==
    /\ result' = [summaries |-> summaries, code |-> code]
    /\ pc' = "done"

\* server.py:409-418
Translate ==
    /\ system = "structured" /\ pc = "start"
    /\ \E answer \in TranslationAnswers, n \in TableCounts :
          LET f == convert_query_to_filters(answer, n) IN
          /\ filters' = f
          /\ IF ~Truthy(f)
             THEN Return(<<>>, OTHER_ERROR)
             ELSE pc' = "query_db" /\ UNCHANGED result
    /\ UNCHANGED <<call, system, query_data_dict, epoxy_entries, dois,
                   dois_with_fulltext, dois_without_fulltext, file_ids,
                   literature_data, pending, literature_summaries,
                   summary_texts, escaped, n_db_queries, n_probes, task_call,
                   probe_has, refetch_empty, other_failure,
                   rag_vars, store_vars, disk_vars, last_op, env_vars, side_vars>>

\* server.py:471-479 after server.py:420-469
AfterDbQuery(ds, rows, calls) ==
    /\ dois' = ds
    /\ query_data_dict' = rows
    /\ epoxy_entries' = {k \in rows : IsEpoxyKey(k)}
    /\ n_db_queries' = n_db_queries + calls
    /\ IF ds = <<>> /\ {k \in rows : IsEpoxyKey(k)} = {}
       THEN Return(<<>>, NO_RESULTS)
       ELSE pc' = "probe" /\ UNCHANGED result
    /\ UNCHANGED other_failure

\* server.py:420-479
QueryDatabase ==
    /\ system = "structured" /\ pc = "query_db"
    /\ \/ /\ filters.kind = "malformed"
          /\ Caught
          /\ UNCHANGED <<dois, query_data_dict, epoxy_entries, n_db_queries>>
       \/ /\ filters.kind = "tables"
          /\ \E keyed \in BOOLEAN :
             \E rs \in [1..filters.ntables -> TableResults(keyed)] :
               \E ds \in Perms(Range(ConcatPapers(rs))) :
                  AfterDbQuery(ds, MergedRows(rs), Len(rs))
       \/ /\ filters.kind = "legacy"
          /\ \E keyed \in BOOLEAN :
             \E r \in TableResults(keyed) : AfterDbQuery(r.papers, r.rows, 1)
    /\ UNCHANGED <<call, system, filters,
                   dois_with_fulltext, dois_without_fulltext, file_ids,
                   literature_data, pending, literature_summaries,
                   summary_texts, escaped, n_probes, task_call,
                   probe_has, refetch_empty,
                   rag_vars, store_vars, disk_vars, last_op, env_vars, side_vars>>

\* server.py:485-505: the fulltext provider answers text for the ids in H
CheckFulltext ==
    /\ system = "structured" /\ pc = "probe"
    /\ \E H \in SUBSET Range(dois) :
          /\ dois_with_fulltext' = SelectSeq(dois, LAMBDA d : d \in H)
          /\ dois_without_fulltext' = SelectSeq(dois, LAMBDA d : d \notin H)
          /\ probe_has' = H
    /\ n_probes' = n_probes + Len(dois)
    /\ pc' = "summarize"
    /\ UNCHANGED <<call, system, filters, query_data_dict, epoxy_entries, dois,
                   file_ids, literature_data, pending, literature_summaries,
                   summary_texts, result, escaped, n_db_queries, task_call,
                   refetch_empty, other_failure,
                   rag_vars, store_vars, disk_vars, last_op, env_vars, side_vars>>

\* server.py:510-543: the cap, then the call of the batch
StartSummaries ==
    /\ system = "structured" /\ pc = "summarize"
    /\ IF dois_with_fulltext # <<>>
       THEN /\ dois_with_fulltext' = Prefix(dois_with_fulltext, MAX_FULLTEXT_SUMMARIES)
            /\ file_ids' = dois_with_fulltext'
            /\ pc' = "batch_read"
       ELSE /\ pc' = "digest"
            /\ UNCHANGED <<dois_with_fulltext, file_ids>>
    /\ UNCHANGED <<call, system, filters, query_data_dict, epoxy_entries, dois,
                   dois_without_fulltext, literature_data, pending,
                   literature_summaries, summary_texts, result, escaped,
                   n_db_queries, n_probes, task_call, probe_has,
                   refetch_empty, other_failure,
                   rag_vars, store_vars, disk_vars, last_op, env_vars, side_vars>>

-----------------------------------------------------------------------------
(* tools/utils.py: generate_literature_summaries_parallel *)

\* utils.py:150-161: every id is fetched again; R are the ids that give text
ReadFulltexts ==
    /\ pc = "batch_read"
    /\ \E R \in SUBSET Range(file_ids) :
          /\ literature_data' = SelectSeq(file_ids, LAMBDA d : d \in R)
          /\ refetch_empty' = Range(file_ids) \ R
          /\ pending' = R
          /\ pc' = IF R = {} THEN "batch_return" ELSE "batch_run"
    /\ n_probes' = n_probes + Len(file_ids)
    /\ UNCHANGED <<call, system, filters, query_data_dict, epoxy_entries, dois,
                   dois_with_fulltext, dois_without_fulltext, file_ids,
                   literature_summaries, summary_texts, result, escaped,
                   n_db_queries, task_call, probe_has, other_failure,
                   rag_vars, store_vars, disk_vars, last_op, env_vars, side_vars>>

\* utils.py:180-185
CollectedEntry(d, o) == [file_id |-> d, kind |-> o.kind]

\* utils.py:165-192: one submitted task ends and as_completed hands it over
TaskCompletes(d) ==
    /\ pc = "batch_run"
    /\ d \in pending
    /\ \E o \in SummaryOutcomes :
          /\ literature_summaries' = Append(literature_summaries, CollectedEntry(d, o))
          /\ task_call' = [file_id |-> d, kind |-> o.kind,
                           attempts |-> o.attempts, failures |-> o.failures]
    /\ pending' = pending \ {d}
    /\ pc' = IF pending' = {} THEN "batch_return" ELSE "batch_run"
    /\ UNCHANGED <<call, system, filters, query_data_dict, epoxy_entries, dois,
                   dois_with_fulltext, dois_without_fulltext, file_ids,
                   literature_data, summary_texts, result, escaped,
                   n_db_queries, n_probes, probe_has, refetch_empty,
                   other_failure, rag_vars, store_vars, disk_vars, last_op, env_vars, side_vars>>

\* the text list built from the batch (server.py:546, stainless server.py:175)
SummaryTexts(entries) ==
    [i \in DOMAIN entries |-> [id |-> entries[i].file_id, kind |-> entries[i].kind]]

-----------------------------------------------------------------------------
(* StructuredSearchSystem.query, after the batch *)

\* server.py:545-546
ExtendSummaries ==
    /\ system = "structured" /\ pc = "batch_return"
    /\ summary_texts' = summary_texts \o SummaryTexts(literature_summaries)
    /\ pc' = "digest"
    /\ UNCHANGED <<call, system, filters, query_data_dict, epoxy_entries, dois,
                   dois_with_fulltext, dois_without_fulltext, file_ids,
                   literature_data, pending, literature_summaries, result,
                   escaped, n_db_queries, n_probes, task_call, probe_has,
                   refetch_empty, other_failure,
                   rag_vars, store_vars, disk_vars, last_op, env_vars, side_vars>>

\* a digest stage that leaves the last id out
DigestsButLast(ids) ==
    [i \in 1..(Len(ids) - 1) |-> [id |-> ids[i], kind |-> "digest"]]

\* server.py:585-594: one digest per id without fulltext, in input order
Digests(ids) == [i \in DOMAIN ids |-> [id |-> ids[i], kind |-> "digest"]]

\* server.py:548-594. When an id has no row, the metadata table is queried
\* once more (server.py:553-583): the query raises, answers an error or
\* nothing, or gives the rows of the missing ids.
MetadataDigests ==
    /\ system = "structured" /\ pc = "digest"
    /\ LET missing_dois == {d \in Range(dois_without_fulltext) : d \notin query_data_dict}
       IN IF dois_without_fulltext = <<>>
          THEN /\ pc' = "epoxy"
               /\ UNCHANGED <<query_data_dict, summary_texts, n_db_queries,
                              result, other_failure>>
          ELSE IF missing_dois = {}
          THEN /\ summary_texts' = summary_texts \o Digests(dois_without_fulltext)
               /\ pc' = "epoxy"
               /\ UNCHANGED <<query_data_dict, n_db_queries, result, other_failure>>
          ELSE /\ n_db_queries' = n_db_queries + 1
               /\ \/ /\ Caught
                     /\ UNCHANGED <<query_data_dict, summary_texts>>
                  \/ /\ \E F \in {{}, missing_dois} :
                          query_data_dict' = query_data_dict \cup F
                     /\ summary_texts' = summary_texts \o Digests(dois_without_fulltext)
                     /\ pc' = "epoxy"
                     /\ UNCHANGED <<result, other_failure>>
    /\ UNCHANGED <<call, system, filters, epoxy_entries, dois,
                   dois_with_fulltext, dois_without_fulltext, file_ids,
                   literature_data, pending, literature_summaries, escaped,
                   n_probes, task_call, probe_has, refetch_empty,
                   rag_vars, store_vars, disk_vars, last_op, env_vars, side_vars>>

\* server.py:596-608: one entry per row without DOI
EpoxyDigests(keys) ==
    LET RECURSIVE Build(_)
        Build(S) == IF S = {} THEN <<>>
                    ELSE LET k == CHOOSE x \in S : TRUE
                         IN <<[id |-> k, kind |-> "epoxy"]>> \o Build(S \ {k})
    IN Build(keys)

\* server.py:596-624
FinishStructured ==
    /\ system = "structured" /\ pc = "epoxy"
    /\ LET texts == summary_texts \o EpoxyDigests(epoxy_entries)
       IN /\ summary_texts' = texts
          /\ IF texts = <<>>
             THEN Return(<<>>, NO_LITERATURE)
             ELSE Return(texts, SUCCESS)
    /\ UNCHANGED <<call, system, filters, query_data_dict, epoxy_entries, dois,
                   dois_with_fulltext, dois_without_fulltext, file_ids,
                   literature_data, pending, literature_summaries, escaped,
                   n_db_queries, n_probes, task_call, probe_has,
                   refetch_empty, other_failure,
                   rag_vars, store_vars, disk_vars, last_op, env_vars, side_vars>>

-----------------------------------------------------------------------------
(* core/vector_store.py: FAISSVectorStore *)

\* vector_store.py:19 embedding_dim (1024 in core/config.py), scaled down
EMBEDDING_DIM == 1

\* the most vectors the store is driven to hold by build and add
MaxIndexSize == 1

ChunkIds == {1, 2, 3}
Coords == {0, 1}
Widths == {EMBEDDING_DIM, EMBEDDING_DIM + 1}

\* the vectors of width w that are used as inputs
Vectors(w) == {[i \in 1..w |-> c] : c \in Coords}

\* a 2-D array of n rows of width w
Batches(w, n) == [1..n -> Vectors(w)]

IdLists(n) == [1..n -> ChunkIds]

\* arguments the length and width checks accept, with every content
WellFormedInputs(max) ==
    UNION {{[embeddings |-> e, w |-> EMBEDDING_DIM, chunk_ids |-> i] :
              e \in Batches(EMBEDDING_DIM, n), i \in IdLists(n)} : n \in 0..max}

\* arguments one of the checks rejects, one content per shape
MalformedInputs(max) ==
    {[embeddings |-> [j \in 1..ne |-> [c \in 1..w |-> 0]], w |-> w,
      chunk_ids |-> [j \in 1..ni |-> 1]] :
        w \in Widths, ne \in 0..max, ni \in 0..max}
    \ WellFormedInputs(max)

StoreInputs == WellFormedInputs(MaxIndexSize) \cup MalformedInputs(MaxIndexSize)

\* vector_store.py:133-137
get_total_vectors(idx) == IF ~idx.built THEN 0 ELSE Len(idx.vecs)

\* a build that keeps what the index held and appends
build_index_append(idx, ids, embeddings, w, new_ids) ==
    IF Len(embeddings) # Len(new_ids) \/ w # EMBEDDING_DIM
    THEN [index |-> idx, chunk_ids |-> ids, exc |-> "ValueError"]
    ELSE [index |-> [built |-> TRUE, vecs |-> idx.vecs \o embeddings],
          chunk_ids |-> ids \o new_ids, exc |-> "None"]

\* vector_store.py:30-54
build_index(idx, ids, embeddings, w, new_ids) ==
    IF Len(embeddings) # Len(new_ids)
    THEN [index |-> idx, chunk_ids |-> ids, exc |-> "ValueError"]
    ELSE IF w # EMBEDDING_DIM
    THEN [index |-> idx, chunk_ids |-> ids, exc |-> "ValueError"]
    ELSE [index |-> [built |-> TRUE, vecs |-> embeddings],
          chunk_ids |-> new_ids, exc |-> "None"]

\* vector_store.py:139-157; index.add at line 155 rejects a wrong width
add_vectors(idx, ids, embeddings, w, new_ids) ==
    IF ~idx.built
    THEN build_index(idx, ids, embeddings, w, new_ids)
    ELSE IF Len(embeddings) # Len(new_ids)
    THEN [index |-> idx, chunk_ids |-> ids, exc |-> "ValueError"]
    ELSE IF w # EMBEDDING_DIM
    THEN [index |-> idx, chunk_ids |-> ids, exc |-> "AssertionError"]
    ELSE [index |-> [idx EXCEPT !.vecs = @ \o embeddings],
          chunk_ids |-> ids \o new_ids, exc |-> "None"]

\* vector_store.py:88-106; write_outcome says which write fails, if any
SaveOutcomes == {"ok", "index_write_failed", "metadata_write_failed"}

save(idx, ids, ifile, mfile, write_outcome) ==
    IF ~idx.built
    THEN [index_file |-> ifile, metadata_file |-> mfile, exc |-> "ValueError"]
    ELSE IF write_outcome = "index_write_failed"
    THEN [index_file |-> ifile, metadata_file |-> mfile, exc |-> "OSError"]
    ELSE IF write_outcome = "metadata_write_failed"
    THEN [index_file |-> [exists |-> TRUE, vecs |-> idx.vecs],
          metadata_file |-> mfile, exc |-> "OSError"]
    ELSE [index_file |-> [exists |-> TRUE, vecs |-> idx.vecs],
          metadata_file |-> [exists |-> TRUE, ids |-> ids], exc |-> "None"]

\* vector_store.py:108-131
load(idx, ids, ifile, mfile) ==
    IF ~ifile.exists
    THEN [index |-> idx, chunk_ids |-> ids, exc |-> "RuntimeError"]
    ELSE IF ~mfile.exists
    THEN [index |-> [built |-> TRUE, vecs |-> ifile.vecs], chunk_ids |-> ids,
          exc |-> "FileNotFoundError"]
    ELSE [index |-> [built |-> TRUE, vecs |-> ifile.vecs],
          chunk_ids |-> mfile.ids, exc |-> "None"]

\* step: build_index(embeddings, chunk_ids)
BuildIndex ==
    /\ \E in \in StoreInputs :
          LET r == build_index(index, chunk_ids, in.embeddings, in.w,
                               in.chunk_ids) IN
          /\ index' = r.index
          /\ chunk_ids' = r.chunk_ids
          /\ last_op' = [op |-> "build", exc |-> r.exc]
    /\ UNCHANGED <<llm_vars, query_vars, rag_vars, disk_vars, env_vars, side_vars>>

\* step: add_vectors(embeddings, chunk_ids)
AddVectors ==
    /\ \E in \in StoreInputs :
          /\ get_total_vectors(index) + Len(in.embeddings) <= MaxIndexSize
          /\ Len(chunk_ids) + Len(in.chunk_ids) <= MaxIndexSize
          /\ LET r == add_vectors(index, chunk_ids, in.embeddings, in.w,
                                  in.chunk_ids) IN
             /\ index' = r.index
             /\ chunk_ids' = r.chunk_ids
             /\ last_op' = [op |-> "add", exc |-> r.exc]
    /\ UNCHANGED <<llm_vars, query_vars, rag_vars, disk_vars, env_vars, side_vars>>

\* step: save(index_path, metadata_path)
Save ==
    /\ \E o \in SaveOutcomes :
          LET r == save(index, chunk_ids, index_file, metadata_file, o) IN
          /\ index_file' = r.index_file
          /\ metadata_file' = r.metadata_file
          /\ last_op' = [op |-> "save", exc |-> r.exc]
    /\ UNCHANGED <<llm_vars, query_vars, rag_vars, store_vars, env_vars, side_vars>>

\* step: load(index_path, metadata_path)
Load ==
    /\ LET r == load(index, chunk_ids, index_file, metadata_file) IN
          /\ index' = r.index
          /\ chunk_ids' = r.chunk_ids
          /\ last_op' = [op |-> "load", exc |-> r.exc]
    /\ UNCHANGED <<llm_vars, query_vars, rag_vars, disk_vars, env_vars, side_vars>>

-----------------------------------------------------------------------------
(* core/vector_store.py search, core/retriever.py retrieve *)

\* core/config.py:14
TOP_K == 5

\* the most vectors in the index a RAGSystem has loaded
MaxLoaded == 2
MaxTextLen == 7
MaxPoolTasks == 2

TopKs == {1, TOP_K}

\* the chunks table: chunk c belongs to file FileOf(c)
FileOf(c) == (c + 1) \div 2

\* a metric that tells no two vectors apart
L2Zero(v, q) == 0

\* squared L2 distance, what IndexFlatL2 reports
L2(v, q) ==
    LET RECURSIVE S(_)
        S(i) == IF i = 0 THEN 0 ELSE (v[i] - q[i]) * (v[i] - q[i]) + S(i - 1)
    IN S(Len(v))

\* the distance reported next to label -1
FloatMax == 10 ^ 6

\* index.search(q, k), k > 0: the k nearest labels (0-based), nearest first,
\* padded with -1; the order among equal distances is the library's choice
faiss_search(vecs, q, k) ==
    LET n == Len(vecs)
        m == IF k < n THEN k ELSE n
        D(j) == L2(vecs[j], q)
        tops == {r \in [1..m -> 1..n] :
                    /\ \A i, j \in 1..m : i < j => r[i] # r[j] /\ D(r[i]) <= D(r[j])
                    /\ \A j \in 1..n : (\A i \in 1..m : r[i] # j) =>
                                          m = 0 \/ D(j) >= D(r[m])}
    IN {[i \in 1..k |-> IF i <= m
                        THEN [label |-> r[i] - 1, distance |-> D(r[i])]
                        ELSE [label |-> -1, distance |-> FloatMax]] : r \in tops}

\* vector_store.py:78-86: labels to ids; a negative label indexes from the end
SearchResults(ids, hits) ==
    LET kept == SelectSeq(hits, LAMBDA h : h.label < Len(ids))
    IN [i \in DOMAIN kept |->
          [chunk_id |-> ids[IF kept[i].label < 0 THEN Len(ids) + 1 + kept[i].label
                            ELSE kept[i].label + 1],
           distance |-> kept[i].distance]]

\* vector_store.py:56-86: the outcomes of search(query_vector, k)
search(idx, ids, q, k, rejects_k0) ==
    LET kk == IF k < Len(ids) THEN k ELSE Len(ids) IN
    IF ~idx.built
    THEN {[exc |-> "ValueError", results |-> <<>>]}
    ELSE IF kk <= 0
    THEN IF rejects_k0
         THEN {[exc |-> "AssertionError", results |-> <<>>]}
         ELSE {[exc |-> "None", results |-> <<>>]}
    ELSE {[exc |-> "None", results |-> SearchResults(ids, h)] :
             h \in faiss_search(idx.vecs, q, kk)}

\* database.py:119-143: the rows of the ids that have one, in any order
get_chunks_by_ids(db, ids) ==
    IF ids = <<>> THEN {<<>>}
    ELSE {[i \in DOMAIN p |-> [chunk_id |-> p[i], file_id |-> FileOf(p[i])]] :
             p \in Perms(Range(ids) \cap db)}

\* retriever.py:59: a dict comprehension, the last pair of an id wins
distance_map(results, c) ==
    LET at == {i \in DOMAIN results : results[i].chunk_id = c}
    IN IF at = {} THEN FloatMax
       ELSE results[CHOOSE i \in at : \A j \in at : j <= i].distance

\* the rows left in the order the database gave them
SortNone(cs) == cs

\* list.sort by distance, stable
RECURSIVE SortByDistance(_)
SortByDistance(cs) ==
    IF cs = <<>> THEN <<>>
    ELSE LET rest == SortByDistance(Tail(cs))
             x == Head(cs)
             before == SelectSeq(rest, LAMBDA y : y.distance < x.distance)
             after == SelectSeq(rest, LAMBDA y : y.distance >= x.distance)
         IN before \o <<x>> \o after

\* retriever.py:38-68 after the search: hydrate, attach distances, sort
retrieve(results, rows) ==
    SortByDistance([i \in DOMAIN rows |->
        [chunk_id |-> rows[i].chunk_id, file_id |-> rows[i].file_id,
         distance |-> distance_map(results, rows[i].chunk_id)]])

-----------------------------------------------------------------------------
(* domains/stainless_steel/server/server.py: RAGSystem.query *)

\* stainless server.py:137-146
RagRetrieve ==
    /\ system = "rag" /\ pc = "start"
    /\ \E q \in Vectors(EMBEDDING_DIM), k \in TopKs :
       \E o \in search(index, chunk_ids, q, k, faiss_rejects_k0) :
          IF o.exc # "None"
          THEN Caught /\ UNCHANGED chunks
          ELSE \E rows \in get_chunks_by_ids(db_chunks,
                              [i \in DOMAIN o.results |-> o.results[i].chunk_id]) :
                  /\ chunks' = retrieve(o.results, rows)
                  /\ IF chunks' = <<>>
                     THEN Return(<<>>, NO_RESULTS)
                     ELSE pc' = "rag_ids" /\ UNCHANGED result
                  /\ UNCHANGED other_failure
    /\ UNCHANGED <<call, system, filters, query_data_dict, epoxy_entries, dois,
                   dois_with_fulltext, dois_without_fulltext, file_ids,
                   literature_data, pending, literature_summaries,
                   summary_texts, escaped, n_db_queries, n_probes, task_call,
                   probe_has, refetch_empty,
                   store_vars, disk_vars, last_op, env_vars, side_vars>>

\* stainless server.py:148-165: list(set(...)) has no promised order
RagUniqueFileIds ==
    /\ system = "rag" /\ pc = "rag_ids"
    /\ \E u \in Perms({chunks[i].file_id : i \in DOMAIN chunks}) :
          file_ids' = u
    /\ pc' = "batch_read"
    /\ UNCHANGED <<call, system, filters, query_data_dict, epoxy_entries, dois,
                   dois_with_fulltext, dois_without_fulltext,
                   literature_data, pending, literature_summaries,
                   summary_texts, result, escaped, n_db_queries, n_probes,
                   task_call, probe_has, refetch_empty, other_failure,
                   rag_vars, store_vars, disk_vars, last_op, env_vars, side_vars>>

\* stainless server.py:167-183
RagFinish ==
    /\ system = "rag" /\ pc = "batch_return"
    /\ IF literature_summaries = <<>>
       THEN Return(<<>>, NO_LITERATURE) /\ UNCHANGED summary_texts
       ELSE /\ summary_texts' = SummaryTexts(literature_summaries)
            /\ Return(summary_texts', SUCCESS)
    /\ UNCHANGED <<call, system, filters, query_data_dict, epoxy_entries, dois,
                   dois_with_fulltext, dois_without_fulltext, file_ids,
                   literature_data, pending, literature_summaries, escaped,
                   n_db_queries, n_probes, task_call, probe_has,
                   refetch_empty, other_failure,
                   rag_vars, store_vars, disk_vars, last_op, env_vars, side_vars>>

\* an index and id list written by one save, as RAGSystem.__init__ loads them
LoadedStores ==
    {[index |-> [built |-> TRUE, vecs |-> in.embeddings],
      chunk_ids |-> in.chunk_ids] : in \in WellFormedInputs(MaxLoaded)}

-----------------------------------------------------------------------------
(* SpecQuery *)

InitStructured ==
    /\ system = "structured" /\ pc = "start"
    /\ filters = [kind |-> "none", ntables |-> 0]
    /\ query_data_dict = {} /\ epoxy_entries = {} /\ dois = <<>>
    /\ dois_with_fulltext = <<>> /\ dois_without_fulltext = <<>>
    /\ file_ids = <<>> /\ literature_data = <<>> /\ pending = {}
    /\ literature_summaries = <<>> /\ summary_texts = <<>>
    /\ result = NoResult /\ escaped = FALSE
    /\ n_db_queries = 0 /\ n_probes = 0
    /\ task_call = NoTaskCall
    /\ probe_has = {} /\ refetch_empty = {} /\ other_failure = FALSE
    /\ chunks = <<>>
    /\ call = IdleCall
    /\ StoreIdle /\ EnvIdle /\ SideIdle

\* stainless server.py:100-118: the components are loaded before any query
InitRag ==
    /\ system = "rag" /\ pc = "start"
    /\ filters = [kind |-> "none", ntables |-> 0]
    /\ query_data_dict = {} /\ epoxy_entries = {} /\ dois = <<>>
    /\ dois_with_fulltext = <<>> /\ dois_without_fulltext = <<>>
    /\ file_ids = <<>> /\ literature_data = <<>> /\ pending = {}
    /\ literature_summaries = <<>> /\ summary_texts = <<>>
    /\ result = NoResult /\ escaped = FALSE
    /\ n_db_queries = 0 /\ n_probes = 0
    /\ task_call = NoTaskCall
    /\ probe_has = {} /\ refetch_empty = {} /\ other_failure = FALSE
    /\ chunks = <<>>
    /\ call = IdleCall
    /\ \E st \in LoadedStores :
          /\ index = st.index
          /\ chunk_ids = st.chunk_ids
          /\ index_file = [exists |-> TRUE, vecs |-> st.index.vecs]
          /\ metadata_file = [exists |-> TRUE, ids |-> st.chunk_ids]
    /\ last_op = [op |-> "load", exc |-> "None"]
    /\ db_chunks \in {ChunkIds} \cup {ChunkIds \ {c} : c \in ChunkIds}
    /\ faiss_rejects_k0 \in BOOLEAN
    /\ SideIdle

InitQuery == InitStructured \/ InitRag

NextQuery ==
    \/ Translate
    \/ QueryDatabase
    \/ CheckFulltext
    \/ StartSummaries
    \/ ReadFulltexts
    \/ \E d \in DOIs : TaskCompletes(d)
    \/ ExtendSummaries
    \/ MetadataDigests
    \/ FinishStructured
    \/ RagRetrieve
    \/ RagUniqueFileIds
    \/ RagFinish

SpecQuery == InitQuery /\ [][NextQuery]_vars

-----------------------------------------------------------------------------
(* SpecLLM *)

InitLLM ==
    /\ \E m \in 0..MaxRetriesArg : call = NewCall(m)
    /\ QueryIdle /\ StoreIdle /\ EnvIdle /\ SideIdle

NextLLM == LLMAttempt \/ LLMExhausted

SpecLLM == InitLLM /\ [][NextLLM]_vars

-----------------------------------------------------------------------------
(* SpecIndex *)

InitIndex ==
    /\ StoreIdle /\ QueryIdle /\ EnvIdle /\ SideIdle
    /\ call = IdleCall

NextIndex == BuildIndex \/ AddVectors \/ Save \/ Load

SpecIndex == InitIndex /\ [][NextIndex]_vars

-----------------------------------------------------------------------------
(* core/chunker.py: TextChunker *)

\* a text is a sequence of characters: a letter, a sentence end, a newline
Alphabet == {"a", ".", "n"}
NewLine == "n"
IsSpace(c) == c = NewLine
IsSentenceEnd(c) == c = "."

Texts == UNION {[1..n -> Alphabet] : n \in 0..MaxTextLen}

\* the configurations: 0 <= overlap_size < chunk_size
ChunkSizes == {1, 2}
MinChunkSizes == {1, 2}
Configs ==
    {c \in [chunk_size : ChunkSizes, overlap_size : 0..1,
            min_chunk_size : MinChunkSizes] : c.overlap_size < c.chunk_size}

\* chunker.py:26-32: int(len(text) * 0.75)
_estimate_tokens(t) == (Len(t) * 3) \div 4

\* str.strip()
strip(t) ==
    LET solid == {k \in 1..Len(t) : ~IsSpace(t[k])}
    IN IF solid = {} THEN <<>>
       ELSE SubSeq(t, CHOOSE a \in solid : \A b \in solid : a <= b,
                      CHOOSE a \in solid : \A b \in solid : a >= b)

\* the maximal pieces of t outside the positions in seps, in order
Pieces(t, seps) ==
    LET starts == {a \in 1..Len(t) : a \notin seps /\ (a = 1 \/ a - 1 \in seps)}
        EndOf(a) == CHOOSE b \in a..Len(t) :
                       /\ \A k \in a..b : k \notin seps
                       /\ b = Len(t) \/ b + 1 \in seps
        order == Ascending(starts)
    IN [k \in DOMAIN order |-> SubSeq(t, order[k], EndOf(order[k]))]

\* chunker.py:34-40: re.split(r'\n\s*\n'), strip, drop the empty ones;
\* a separator is a run of whitespace from its first newline to its last
_split_into_paragraphs(t) ==
    LET RunOf(k) == {j \in 1..Len(t) :
                        \A x \in (IF j < k THEN j..k ELSE k..j) : IsSpace(t[x])}
        seps == {k \in 1..Len(t) :
                    /\ IsSpace(t[k])
                    /\ \E a, b \in RunOf(k) :
                          a <= k /\ k <= b /\ a < b
                          /\ t[a] = NewLine /\ t[b] = NewLine}
        stripped == [k \in DOMAIN Pieces(t, seps) |-> strip(Pieces(t, seps)[k])]
    IN SelectSeq(stripped, LAMBDA x : x # <<>>)

\* chunker.py:42-53: re.split(r'([.!?]\s*)') gives text, delimiter, text, ...;
\* each text is joined with the delimiter after it and what follows the last
\* delimiter is not taken
_split_into_sentences(t) ==
    LET ends == Ascending({k \in 1..Len(t) : IsSentenceEnd(t[k])})
        From(k) == IF k = 1 THEN 1 ELSE ends[k - 1] + 1
        joined == [k \in DOMAIN ends |-> strip(SubSeq(t, From(k), ends[k]))]
    IN SelectSeq(joined, LAMBDA x : x # <<>>)

\* '\n\n'.join(parts)
RECURSIVE Join(_)
Join(parts) ==
    IF parts = <<>> THEN <<>>
    ELSE IF Len(parts) = 1 THEN parts[1]
    ELSE parts[1] \o <<NewLine, NewLine>> \o Join(Tail(parts))

\* str.find(sub, start): the lowest index (0-based) at or after start, or -1
Find(t, sub, start) ==
    LET at == {a \in start..(Len(t) - Len(sub)) :
                  SubSeq(t, a + 1, a + Len(sub)) = sub}
    IN IF at = {} THEN -1 ELSE CHOOSE a \in at : \A b \in at : a <= b

\* str.rfind(sub): the highest index (0-based), or -1
RFind(t, sub) ==
    LET at == {a \in 0..(Len(t) - Len(sub)) :
                  SubSeq(t, a + 1, a + Len(sub)) = sub}
    IN IF at = {} THEN -1 ELSE CHOOSE a \in at : \A b \in at : a >= b

\* t[a:b] for 0 <= a
Slice(t, a, b) == SubSeq(t, a + 1, IF b < Len(t) THEN b ELSE Len(t))

\* chunker.py:189-218
_get_overlap_text(t, start_pos, overlap_tokens) ==
    IF start_pos <= 0 THEN <<>>
    ELSE
    LET overlap_chars == (overlap_tokens * 4) \div 3
        overlap_start == IF start_pos - overlap_chars > 0
                         THEN start_pos - overlap_chars ELSE 0
        overlap_text == Slice(t, overlap_start, start_pos)
        para_start == RFind(overlap_text, <<NewLine, NewLine>>)
        sent_start == RFind(overlap_text, <<".">>)
    IN IF 10 * para_start > 3 * Len(overlap_text)
       THEN strip(Slice(overlap_text, para_start + 2, Len(overlap_text)))
       ELSE IF 10 * sent_start > 3 * Len(overlap_text)
       THEN strip(Slice(overlap_text, sent_start + 1, Len(overlap_text)))
       ELSE strip(overlap_text)

\* chunker.py:220-232 and the append after it; chunk_index is the position;
\* first records the first of the units joined into the text
SaveChunk(s) ==
    LET chunk_text == Join(s.current_chunk)
        end_char == s.current_start + Len(chunk_text)
    IN [s EXCEPT !.chunks = Append(@, [text |-> chunk_text,
                                       start_char |-> s.current_start,
                                       end_char |-> end_char,
                                       token_count |-> s.current_chunk_tokens,
                                       first |-> s.current_chunk[1]]),
                 !.last_chunk_end = end_char]

\* chunker.py:160-165 (and 123-128): the next buffer starts with the overlap
StartWithOverlap(s) ==
    LET overlap_text == _get_overlap_text(s.text, s.last_chunk_end,
                                          s.overlap_size)
    IN [s EXCEPT !.current_chunk = IF overlap_text # <<>>
                                   THEN <<overlap_text>> ELSE <<>>,
                 !.current_chunk_tokens = _estimate_tokens(overlap_text),
                 !.current_start = IF overlap_text # <<>>
                                   THEN s.last_chunk_end - Len(overlap_text)
                                   ELSE s.last_chunk_end]

\* chunker.py:129-132
StartEmpty(s) ==
    [s EXCEPT !.current_chunk = <<>>, !.current_chunk_tokens = 0,
              !.current_start = s.last_chunk_end]

\* chunker.py:105-137: the sentences of a paragraph larger than chunk_size
RECURSIVE AddSentences(_, _)
AddSentences(s, sentences) ==
    IF sentences = <<>> THEN s
    ELSE
    LET sentence == Head(sentences)
        sent_tokens == _estimate_tokens(sentence)
        saved == IF /\ s.current_chunk_tokens + sent_tokens > s.chunk_size
                    /\ s.current_chunk # <<>>
                 THEN LET e == SaveChunk(s) IN
                      IF e.last_chunk_end > 0 THEN StartWithOverlap(e)
                      ELSE StartEmpty(e)
                 ELSE s
        added == [saved EXCEPT !.current_chunk = Append(@, sentence),
                               !.current_chunk_tokens = @ + sent_tokens]
        placed == IF added.current_start = 0
                  THEN [added EXCEPT !.current_start = Find(s.text, sentence, 0)]
                  ELSE added
    IN AddSentences(placed, Tail(sentences))

\* chunker.py:140-144 and 167-171: the paragraph joins the buffer
AddParagraph(s, para) ==
    LET added == [s EXCEPT !.current_chunk = Append(@, para),
                           !.current_chunk_tokens = @ + _estimate_tokens(para)]
    IN IF added.current_start = 0
       THEN [added EXCEPT !.current_start = Find(s.text, para, s.last_chunk_end)]
       ELSE added

\* chunker.py:84-173: one iteration of the loop over the paragraphs
OneParagraph(s) ==
    LET para == s.paragraphs[s.i + 1]
        para_tokens == _estimate_tokens(para)
        done ==
            IF para_tokens > s.chunk_size
            THEN LET flushed == IF s.current_chunk # <<>>
                                THEN [SaveChunk(s) EXCEPT
                                         !.current_chunk = <<>>,
                                         !.current_chunk_tokens = 0]
                                ELSE s
                 IN AddSentences(flushed, _split_into_sentences(para))
            ELSE IF s.current_chunk_tokens + para_tokens <= s.chunk_size
            THEN AddParagraph(s, para)
            ELSE AddParagraph(IF s.current_chunk # <<>>
                              THEN StartWithOverlap(SaveChunk(s)) ELSE s, para)
    IN [done EXCEPT !.i = s.i + 1]

\* a final step that keeps every buffer
EmitsFinalAlways(s) == TRUE

\* chunker.py:179
EmitsFinal(s) == _estimate_tokens(Join(s.current_chunk)) >= s.min_chunk_size

\* chunker.py:175-187; current_start and the buffer stay as the loop left them
LastChunk(s) ==
    [(IF s.current_chunk # <<>> /\ EmitsFinal(s)
      THEN [SaveChunk(s) EXCEPT !.last_chunk_end = s.last_chunk_end,
                                !.final_saved = TRUE]
      ELSE s) EXCEPT !.pc = "returned"]

\* chunker.py:83-173
ChunkParagraph ==
    /\ chunker.pc = "loop"
    /\ chunker.i < Len(chunker.paragraphs)
    /\ chunker' = OneParagraph(chunker)
    /\ UNCHANGED <<llm_vars, query_vars, rag_vars, store_vars, disk_vars,
                   last_op, env_vars, store_call, merge_vars, pool_vars,
                   runs_vars, translation_vars, digest_vars>>

\* chunker.py:175-187
ChunkFinish ==
    /\ chunker.pc = "loop"
    /\ chunker.i = Len(chunker.paragraphs)
    /\ chunker' = LastChunk(chunker)
    /\ UNCHANGED <<llm_vars, query_vars, rag_vars, store_vars, disk_vars,
                   last_op, env_vars, store_call, merge_vars, pool_vars,
                   runs_vars, translation_vars, digest_vars>>

\* chunker.py:13-24, 73-82
InitChunk ==
    /\ QueryIdle /\ StoreIdle /\ EnvIdle
    /\ call = IdleCall
    /\ store_call = NoStoreCall /\ table_merge = NoTableMerge /\ pool = NoPool
    /\ runs = NoRuns /\ translation = NoTranslation /\ digest = NoDigest
    /\ \E t \in Texts, c \in Configs :
          chunker = [NoChunker EXCEPT !.pc = "loop", !.text = t,
                        !.chunk_size = c.chunk_size,
                        !.overlap_size = c.overlap_size,
                        !.min_chunk_size = c.min_chunk_size,
                        !.paragraphs = _split_into_paragraphs(t)]

NextChunk == ChunkParagraph \/ ChunkFinish

SpecChunk == InitChunk /\ [][NextChunk]_vars

-----------------------------------------------------------------------------
(* domains/chembrain/server/server.py:425-461: the loop over filters['tables'] *)

\* dict.update where the first value of a key stays
UpdateKeepFirst(d, keys, t) ==
    [k \in DOMAIN d \cup keys |-> IF k \in DOMAIN d THEN d[k] ELSE t]

\* query_data_dict.update(table_query_data), server.py:457; a row is
\* represented by the position of the table it came from
Update(d, keys, t) ==
    [k \in DOMAIN d \cup keys |-> IF k \in keys THEN t ELSE d[k]]

\* server.py:431-458: one table queried and its result merged
TableQuery ==
    /\ table_merge.pc = "loop"
    /\ Len(table_merge.returned) < table_merge.ntables
    /\ \E keyed \in BOOLEAN :
       \E r \in TableResults(keyed) :
          table_merge' =
             [table_merge EXCEPT
                 !.all_dois = @ \o r.papers,
                 !.query_data_dict =
                     Update(@, r.rows, Len(table_merge.returned) + 1),
                 !.returned = Append(@, r)]
    /\ UNCHANGED <<llm_vars, query_vars, rag_vars, store_vars, disk_vars,
                   last_op, env_vars, store_call, chunker_vars, pool_vars,
                   runs_vars, translation_vars, digest_vars>>

\* server.py:461: dois = list(set(all_dois)), in no promised order
TablesDone ==
    /\ table_merge.pc = "loop"
    /\ Len(table_merge.returned) = table_merge.ntables
    /\ \E ds \in Perms(Range(table_merge.all_dois)) :
          table_merge' = [table_merge EXCEPT !.dois = ds, !.pc = "merged"]
    /\ UNCHANGED <<llm_vars, query_vars, rag_vars, store_vars, disk_vars,
                   last_op, env_vars, store_call, chunker_vars, pool_vars,
                   runs_vars, translation_vars, digest_vars>>

\* server.py:425-429
InitTables ==
    /\ QueryIdle /\ StoreIdle /\ EnvIdle
    /\ call = IdleCall
    /\ store_call = NoStoreCall /\ chunker = NoChunker /\ pool = NoPool
    /\ runs = NoRuns /\ translation = NoTranslation /\ digest = NoDigest
    /\ \E n \in TableCounts :
          table_merge = [NoTableMerge EXCEPT !.pc = "loop", !.ntables = n]

NextTables == TableQuery \/ TablesDone

SpecTables == InitTables /\ [][NextTables]_vars

-----------------------------------------------------------------------------
(* tools/utils.py:163-195: the executor of generate_literature_summaries_parallel *)

\* the calls of generate_literature_summaries_parallel in progress at one
\* time: query 1 with any batch, query 2 with one document
Queries == {1, 2}
WorkerCounts == {1, 2}
RetryCounts == {1, 2}

PoolConfigs(q) ==
    IF q = 1
    THEN [ntasks : 0..MaxPoolTasks, max_workers : WorkerCounts,
          max_retries : RetryCounts]
    ELSE [ntasks : {1}, max_workers : {1}, max_retries : {1}]

\* the function not called
IdleBatch ==
    [pc |-> "idle", max_workers |-> 0, max_retries |-> 0, tasks |-> <<>>,
     summaries |-> <<>>]

\* a future just submitted (utils.py:168-175)
QueuedTask == [st |-> "queued", calls |-> 0, kind |-> "none"]

Running(b) == {t \in DOMAIN b.tasks : b.tasks[t].st = "running"}

\* an executor that starts a thread for every task
WorkerFreeAlways(b) == TRUE

\* ThreadPoolExecutor(max_workers): a task runs only on one of max_workers threads
WorkerFree(b) == Cardinality(Running(b)) < b.max_workers

\* a collecting loop that stops at the first result
CollectedAny(b) == \E t \in DOMAIN b.tasks : b.tasks[t].st = "collected"

\* utils.py:177, 165: as_completed has yielded every future and the with
\* block has joined the threads
CollectedAll(b) == \A t \in DOMAIN b.tasks : b.tasks[t].st = "collected"

\* utils.py:150-175: the texts read, the executor made, every task submitted
Submit(q) ==
    /\ pool[q].pc = "idle"
    /\ \E c \in PoolConfigs(q) :
          pool' = [pool EXCEPT ![q] =
                      IF c.ntasks = 0
                      THEN [IdleBatch EXCEPT !.pc = "returned",
                                             !.max_workers = c.max_workers,
                                             !.max_retries = c.max_retries]
                      ELSE [pc |-> "collecting",
                            max_workers |-> c.max_workers,
                            max_retries |-> c.max_retries,
                            tasks |-> [t \in 1..c.ntasks |-> QueuedTask],
                            summaries |-> <<>>]]
    /\ UNCHANGED <<llm_vars, query_vars, rag_vars, store_vars, disk_vars,
                   last_op, env_vars, store_call, chunker_vars, merge_vars,
                   runs_vars, translation_vars, digest_vars>>

\* a thread of the executor of query q takes the next task of its queue
WorkerStart(q, t) ==
    /\ pool[q].pc = "collecting"
    /\ t \in DOMAIN pool[q].tasks
    /\ pool[q].tasks[t].st = "queued"
    /\ \A u \in 1..(t - 1) : pool[q].tasks[u].st # "queued"
    /\ WorkerFree(pool[q])
    /\ pool' = [pool EXCEPT ![q].tasks[t].st = "running"]
    /\ UNCHANGED <<llm_vars, query_vars, rag_vars, store_vars, disk_vars,
                   last_op, env_vars, store_call, chunker_vars, merge_vars,
                   runs_vars, translation_vars, digest_vars>>

\* utils.py:53-73 inside the task: one generation request and its answer
WorkerRequest(q, t) ==
    /\ pool[q].pc = "collecting"
    /\ t \in DOMAIN pool[q].tasks
    /\ pool[q].tasks[t].st = "running"
    /\ LoopContinues(pool[q].tasks[t].calls + 1, pool[q].max_retries)
    /\ \E resp \in Responses :
          pool' = [pool EXCEPT ![q].tasks[t] =
                      [st |-> IF IsRequestException(resp) THEN "running"
                              ELSE "done",
                       calls |-> @.calls + 1,
                       kind |-> IF resp = "ok" THEN "summary"
                                ELSE IF IsRequestException(resp) THEN "none"
                                ELSE "gen_error"]]
    /\ UNCHANGED <<llm_vars, query_vars, rag_vars, store_vars, disk_vars,
                   last_op, env_vars, store_call, chunker_vars, merge_vars,
                   runs_vars, translation_vars, digest_vars>>

\* utils.py:76, 113-117: the loop is over, the task returns the error text
WorkerExhausted(q, t) ==
    /\ pool[q].pc = "collecting"
    /\ t \in DOMAIN pool[q].tasks
    /\ pool[q].tasks[t].st = "running"
    /\ ~LoopContinues(pool[q].tasks[t].calls + 1, pool[q].max_retries)
    /\ pool' = [pool EXCEPT ![q].tasks[t].st = "done",
                            ![q].tasks[t].kind = "gen_error"]
    /\ UNCHANGED <<llm_vars, query_vars, rag_vars, store_vars, disk_vars,
                   last_op, env_vars, store_call, chunker_vars, merge_vars,
                   runs_vars, translation_vars, digest_vars>>

\* utils.py:177-185: the calling thread takes a finished future and appends
Collect(q, t) ==
    /\ pool[q].pc = "collecting"
    /\ t \in DOMAIN pool[q].tasks
    /\ pool[q].tasks[t].st = "done"
    /\ pool' = [pool EXCEPT ![q].tasks[t].st = "collected",
                            ![q].summaries =
                                Append(@, [task |-> t,
                                           kind |-> pool[q].tasks[t].kind])]
    /\ UNCHANGED <<llm_vars, query_vars, rag_vars, store_vars, disk_vars,
                   last_op, env_vars, store_call, chunker_vars, merge_vars,
                   runs_vars, translation_vars, digest_vars>>

\* utils.py:194-195
BatchReturn(q) ==
    /\ pool[q].pc = "collecting"
    /\ CollectedAll(pool[q])
    /\ pool' = [pool EXCEPT ![q].pc = "returned"]
    /\ UNCHANGED <<llm_vars, query_vars, rag_vars, store_vars, disk_vars,
                   last_op, env_vars, store_call, chunker_vars, merge_vars,
                   runs_vars, translation_vars, digest_vars>>

InitPool ==
    /\ QueryIdle /\ StoreIdle /\ EnvIdle
    /\ call = IdleCall
    /\ store_call = NoStoreCall /\ chunker = NoChunker
    /\ table_merge = NoTableMerge
    /\ runs = NoRuns /\ translation = NoTranslation /\ digest = NoDigest
    /\ pool = [q \in Queries |-> IdleBatch]

NextPool ==
    \E q \in Queries :
       \/ Submit(q)
       \/ BatchReturn(q)
       \/ \E t \in 1..MaxPoolTasks :
             \/ WorkerStart(q, t)
             \/ WorkerRequest(q, t)
             \/ WorkerExhausted(q, t)
             \/ Collect(q, t)

SpecPool == InitPool /\ [][NextPool]_vars

\* the threads are scheduled and every request returns or times out
PoolFairness ==
    \A q \in Queries :
       /\ WF_vars(Submit(q))
       /\ WF_vars(BatchReturn(q))
       /\ \A t \in 1..MaxPoolTasks :
             /\ WF_vars(WorkerStart(q, t))
             /\ WF_vars(WorkerRequest(q, t))
             /\ WF_vars(WorkerExhausted(q, t))
             /\ WF_vars(Collect(q, t))

SpecPoolFair == SpecPool /\ PoolFairness

-----------------------------------------------------------------------------
(* SpecSearch: build_index, search and retrieve called on one store *)

\* the stores a sequence of build, add, save and load can leave (SpecIndex):
\* no index, an index and an id list of one length with every content, and
\* the two of any two lengths that load leaves, one id list per length
ReachableStores ==
    {[index |-> NoIndex, chunk_ids |-> <<>>]} \cup LoadedStores \cup
    UNION {{[index |-> [built |-> TRUE, vecs |-> e],
             chunk_ids |-> [j \in 1..m |-> ((j - 1) % Cardinality(ChunkIds)) + 1]] :
              e \in Batches(EMBEDDING_DIM, n)} :
           n \in 0..MaxLoaded, m \in 0..MaxLoaded}

\* vector_store.py:30-54, the call and its arguments recorded; the client
\* builds before it queries
CallBuild ==
    /\ store_call.op = "none"
    /\ \E in \in WellFormedInputs(MaxLoaded) \cup MalformedInputs(MaxLoaded) :
          LET r == build_index(index, chunk_ids, in.embeddings, in.w,
                               in.chunk_ids) IN
          /\ index' = r.index
          /\ chunk_ids' = r.chunk_ids
          /\ last_op' = [op |-> "build", exc |-> r.exc]
          /\ store_call' = [NoStoreCall EXCEPT !.op = "build",
                               !.embeddings = in.embeddings, !.w = in.w,
                               !.chunk_ids = in.chunk_ids, !.exc = r.exc]
    /\ chunks' = <<>>
    /\ UNCHANGED <<llm_vars, query_vars, disk_vars, env_vars, chunker_vars, merge_vars, pool_vars,
                   runs_vars, translation_vars, digest_vars>>

\* vector_store.py:56-86, the call, its arguments and its result recorded;
\* a query leaves the store as it was, so one query per behaviour covers all
CallSearch ==
    /\ store_call.op \in {"none", "build"}
    /\ \E q \in Vectors(EMBEDDING_DIM), k \in TopKs :
       \E o \in search(index, chunk_ids, q, k, faiss_rejects_k0) :
          store_call' = [NoStoreCall EXCEPT !.op = "search", !.q = q, !.k = k,
                            !.exc = o.exc, !.results = o.results]
    /\ chunks' = <<>>
    /\ UNCHANGED <<llm_vars, query_vars, store_vars, disk_vars, last_op,
                   env_vars, chunker_vars, merge_vars, pool_vars,
                   runs_vars, translation_vars, digest_vars>>

\* retriever.py:38-68; results records what the search inside gave
CallRetrieve ==
    /\ store_call.op \in {"none", "build"}
    /\ \E q \in Vectors(EMBEDDING_DIM), k \in TopKs :
       \E o \in search(index, chunk_ids, q, k, faiss_rejects_k0) :
          IF o.exc # "None"
          THEN /\ store_call' = [NoStoreCall EXCEPT !.op = "retrieve", !.q = q,
                                    !.k = k, !.exc = o.exc]
               /\ chunks' = <<>>
          ELSE \E rows \in get_chunks_by_ids(db_chunks,
                              [i \in DOMAIN o.results |-> o.results[i].chunk_id]) :
                  /\ chunks' = retrieve(o.results, rows)
                  /\ store_call' = [NoStoreCall EXCEPT !.op = "retrieve",
                                       !.q = q, !.k = k, !.results = o.results]
    /\ UNCHANGED <<llm_vars, query_vars, store_vars, disk_vars, last_op,
                   env_vars, chunker_vars, merge_vars, pool_vars,
                   runs_vars, translation_vars, digest_vars>>

InitSearch ==
    /\ QueryIdle /\ SideIdle
    /\ call = IdleCall
    /\ \E st \in ReachableStores :
          /\ index = st.index
          /\ chunk_ids = st.chunk_ids
    /\ index_file = NoIndexFile /\ metadata_file = NoMetadataFile
    /\ last_op = [op |-> "init", exc |-> "None"]
    /\ db_chunks \in {ChunkIds, ChunkIds \ {2}}
    /\ faiss_rejects_k0 \in BOOLEAN

NextSearch == CallBuild \/ CallSearch \/ CallRetrieve

SpecSearch == InitSearch /\ [][NextSearch]_vars

-----------------------------------------------------------------------------
(* SpecTwoRuns: StructuredSearchSystem.query called twice, one call after the
   other, with the same filters and the same responses of the relational
   store, the fulltext provider and the generation API *)

\* the answers to the queries of filters['tables'], table by table, each
\* with its papers list
TableResponses ==
    UNION {[1..n -> {[papers |-> Ascending(1..k)] : k \in 0..MaxDocs}] :
           n \in {1, 2}}

\* a call of query before its database step
NewRun ==
    [pc |-> "query_db", dois |-> <<>>, dois_with_fulltext |-> <<>>,
     dois_without_fulltext |-> <<>>, summary_texts |-> <<>>, code |-> -1]

\* server.py:461 list(set(all_dois)): a set of str is listed in the order of
\* the hashes, which the interpreter salts anew in every process
Dedupe(all_dois) == Perms(Range(all_dois))

\* server.py:510-543: the entry of an id the batch summarized; the generation
\* API fails for the ids in runs.fails
SummaryEntries(ids) ==
    [i \in DOMAIN ids |->
        [id |-> ids[i],
         kind |-> IF ids[i] \in runs.fails THEN "gen_error" ELSE "summary"]]

\* server.py:425-479 of call r
RunQueryDatabase(r) ==
    /\ runs.run # <<>> /\ runs.run[r].pc = "query_db"
    /\ \A q \in 1..(r - 1) : runs.run[q].pc = "done"
    /\ \E u \in Dedupe(ConcatPapers(runs.tables)) :
          runs' = IF u = <<>>
                  THEN [runs EXCEPT !.run[r].pc = "done",
                                    !.run[r].code = NO_RESULTS]
                  ELSE [runs EXCEPT !.run[r].pc = "probe",
                                    !.run[r].dois = u]
    /\ UNCHANGED <<llm_vars, query_vars, rag_vars, store_vars, disk_vars,
                   last_op, env_vars, store_call, chunker_vars, merge_vars,
                   pool_vars, translation_vars, digest_vars>>

\* server.py:485-505 of call r
RunCheckFulltext(r) ==
    /\ runs.run # <<>> /\ runs.run[r].pc = "probe"
    /\ LET ds == runs.run[r].dois IN
       runs' = [runs EXCEPT
                  !.run[r].pc = "summarize",
                  !.run[r].dois_with_fulltext =
                      SelectSeq(ds, LAMBDA d : d \in runs.has),
                  !.run[r].dois_without_fulltext =
                      SelectSeq(ds, LAMBDA d : d \notin runs.has)]
    /\ UNCHANGED <<llm_vars, query_vars, rag_vars, store_vars, disk_vars,
                   last_op, env_vars, store_call, chunker_vars, merge_vars,
                   pool_vars, translation_vars, digest_vars>>

\* server.py:510-624 of call r: the cap, the batch, the digests, the return
RunSummarize(r) ==
    /\ runs.run # <<>> /\ runs.run[r].pc = "summarize"
    /\ LET kept == Prefix(runs.run[r].dois_with_fulltext, MAX_FULLTEXT_SUMMARIES)
           texts == SummaryEntries(kept) \o Digests(runs.run[r].dois_without_fulltext)
       IN runs' = [runs EXCEPT
                     !.run[r].pc = "done",
                     !.run[r].dois_with_fulltext = kept,
                     !.run[r].summary_texts = texts,
                     !.run[r].code = IF texts = <<>> THEN NO_LITERATURE
                                        ELSE SUCCESS]
    /\ UNCHANGED <<llm_vars, query_vars, rag_vars, store_vars, disk_vars,
                   last_op, env_vars, store_call, chunker_vars, merge_vars,
                   pool_vars, translation_vars, digest_vars>>

InitTwoRuns ==
    /\ QueryIdle /\ StoreIdle /\ EnvIdle
    /\ call = IdleCall
    /\ store_call = NoStoreCall /\ chunker = NoChunker
    /\ table_merge = NoTableMerge /\ pool = NoPool
    /\ translation = NoTranslation /\ digest = NoDigest
    /\ \E ts \in TableResponses, H \in SUBSET DOIs, F \in {{}, {1}} :
          runs = [tables |-> ts, has |-> H, fails |-> F,
                  run |-> <<NewRun, NewRun>>]

NextTwoRuns ==
    \E r \in 1..2 :
       \/ RunQueryDatabase(r)
       \/ RunCheckFulltext(r)
       \/ RunSummarize(r)

SpecTwoRuns == InitTwoRuns /\ [][NextTwoRuns]_vars

-----------------------------------------------------------------------------
(* SpecTranslation: the parsed answer of the translation request, the filters
   _convert_query_to_filters returns for it (chembrain server.py:165-187) and
   the table queries query issues for them (server.py:413-467) *)

\* the longest list of predicates an answer holds
MaxPredicates == 2

\* a JSON value of the answer: kind tells its shape, the other fields hold
\* what that shape has and are empty otherwise
JsonValue(kind, field, groupOperator, table_name, sub) ==
    [kind |-> kind, field |-> field, groupOperator |-> groupOperator,
     table_name |-> table_name, sub |-> sub]

\* {'type': 1, 'field': f, 'operator': ..., 'value': ...}
Leaf(f) == JsonValue("leaf", f, "", "", <<>>)

\* {'type': 2, 'groupOperator': op, 'sub': [...]}
Composite(op, children) == JsonValue("composite", "", op, "", children)

\* [...]
JsonList(items) == JsonValue("list", "", "", "", items)

\* {}
EmptyDict == JsonValue("empty_dict", "", "", "", <<>>)

\* {'filters': x}
Wrapper(x) == JsonValue("wrapper", "", "", "", <<x>>)

\* {'table_name': name, 'filters': x}, or {'filters': x} when name is absent
TableQueryEntry(name, x) == JsonValue("table_query", "", "", name, <<x>>)

\* {'tables': [...]}
TablesDict(entries) == JsonValue("tables", "", "", "", entries)

\* a number
Scalar == JsonValue("scalar", "", "", "", <<>>)

\* None
NoneValue == JsonValue("None", "", "", "", <<>>)

Leaves == {Leaf(f) : f \in {"f1", "f2"}}

Composites ==
    {Composite(op, c) : op \in {"and", "or"}, c \in [1..2 -> Leaves]}

PredicateLists ==
    UNION {{JsonList(l) : l \in [1..n -> Leaves]} : n \in 0..MaxPredicates}
    \cup {JsonList(<<c, l>>) : c \in {Composite("or", <<Leaf("f1"), Leaf("f2")>>)},
                               l \in Leaves}

\* what a 'filters' key can hold
FilterValues == Leaves \cup Composites \cup PredicateLists \cup {EmptyDict}

\* the answers of the translation request, parsed
ParsedAnswers ==
    Leaves \cup Composites \cup PredicateLists \cup {EmptyDict, Scalar}
    \cup {Wrapper(x) : x \in FilterValues}
    \cup UNION {{TablesDict(e) :
                   e \in [1..n -> {TableQueryEntry(t, x) :
                                      t \in {"polym00", "677df00", "absent"},
                                      x \in FilterValues}]} :
                n \in 1..2}

\* server.py:177-185; 'tables' not in a number raises TypeError, caught at 189
_convert_query_to_filters(response) ==
    CASE response.kind = "scalar" -> NoneValue
      [] response.kind \in {"leaf", "composite"} ->
            TablesDict(<<TableQueryEntry("polym00", response)>>)
      [] response.kind = "wrapper" ->
            TablesDict(<<TableQueryEntry("polym00", response.sub[1])>>)
      [] OTHER -> response

\* server.py:413 "if not filters"
Falsy(f) ==
    \/ f.kind \in {"None", "empty_dict"}
    \/ f.kind = "list" /\ f.sub = <<>>

\* server.py:435-447
FoldList(table_filters) ==
    IF table_filters.kind # "list" THEN table_filters
    ELSE IF Len(table_filters.sub) = 1 THEN table_filters.sub[1]
    ELSE IF Len(table_filters.sub) > 1 THEN Composite("and", table_filters.sub)
    ELSE EmptyDict

\* server.py:426-467: the (table_name, filters) pairs _query_database is
\* called with, in order
TableQueries(f) ==
    IF f.kind = "tables"
    THEN [i \in DOMAIN f.sub |->
             [table_name |-> IF f.sub[i].table_name = "absent" THEN "polym00"
                             ELSE f.sub[i].table_name,
              filters |-> FoldList(f.sub[i].sub[1])]]
    ELSE <<[table_name |-> "polym00", filters |-> f]>>

\* server.py:409-418
ConvertResponse ==
    /\ translation.pc = "start"
    /\ LET f == _convert_query_to_filters(translation.response) IN
       translation' = [translation EXCEPT
                          !.pc = IF Falsy(f) THEN "failed" ELSE "query_db",
                          !.filters = f]
    /\ UNCHANGED <<llm_vars, query_vars, rag_vars, store_vars, disk_vars,
                   last_op, env_vars, store_call, chunker_vars, merge_vars,
                   pool_vars, runs_vars, digest_vars>>

\* server.py:420-469
ExecuteFilters ==
    /\ translation.pc = "query_db"
    /\ translation' = [translation EXCEPT
                          !.pc = "queried",
                          !.executed = TableQueries(translation.filters)]
    /\ UNCHANGED <<llm_vars, query_vars, rag_vars, store_vars, disk_vars,
                   last_op, env_vars, store_call, chunker_vars, merge_vars,
                   pool_vars, runs_vars, digest_vars>>

InitTranslation ==
    /\ QueryIdle /\ StoreIdle /\ EnvIdle
    /\ call = IdleCall
    /\ store_call = NoStoreCall /\ chunker = NoChunker
    /\ table_merge = NoTableMerge /\ pool = NoPool
    /\ runs = NoRuns /\ digest = NoDigest
    /\ \E response \in ParsedAnswers :
          translation = [NoTranslation EXCEPT !.pc = "start",
                                              !.response = response]

NextTranslation == ConvertResponse \/ ExecuteFilters

SpecTranslation == InitTranslation /\ [][NextTranslation]_vars

-----------------------------------------------------------------------------
(* SpecDigest: the digest of an identifier without fulltext: the data
   combined for it (chembrain server.py:585-594, ssebrain server.py:419) and
   _generate_metadata_summary (chembrain server.py:276-398, ssebrain
   server.py:253-299) *)

\* the most keys a row of the relational store holds
MaxRowKeys == 2

\* the keys rows are made of, in the order the store lists them: aliases of
\* title and journal, system and audit fields, a generic field and a
\* domain field
RowKeys ==
    <<"title", "Title", "paper_title", "journal", "journalName", "_id",
      "createTime", "a1b2c3d4e5_status", "note", "smiles">>

\* the values of a key: empty, blank, and two texts
RowValues == {"", " ", "a", "b"}

\* a dict in insertion order, as a sequence of (key, value) pairs
RowsOver(positions, values, n) ==
    UNION {{[i \in 1..Cardinality(K) |->
                [key |-> RowKeys[Ascending(K)[i]],
                 value |-> v[Ascending(K)[i]]]] : v \in [K -> values]} :
           K \in {S \in SUBSET positions : Cardinality(S) <= n}}

\* result['result'] items of the table queried (server.py:226-231)
QueryRows == RowsOver(1..Len(RowKeys), RowValues, MaxRowKeys)

\* rows of the paper-metadata table 690hd00 (server.py:250-268)
MetadataRows == RowsOver({1, 4}, {"a", "b"}, 2)

HasKey(d, k) == \E i \in DOMAIN d : d[i].key = k

\* d[k]
Item(d, k) == d[CHOOSE i \in DOMAIN d : d[i].key = k].value

\* d.get(k, default)
Get(d, k, default) == IF HasKey(d, k) THEN Item(d, k) ELSE default

\* {**a, **b}: the keys of a in their order with the value b has for them
\* when it has one, then the other keys of b
Merge(a, b) ==
    [i \in DOMAIN a |-> [key |-> a[i].key,
                         value |-> Get(b, a[i].key, a[i].value)]]
    \o SelectSeq(b, LAMBDA e : ~HasKey(a, e.key))

\* bool(v) of a str
TruthyStr(v) == v # ""

\* str(v).strip() of the values used
StrStrip(v) == IF v = " " THEN "" ELSE v

\* key.lower() of the keys used
Lower(k) ==
    CASE k = "Title" -> "title"
      [] k = "journalName" -> "journalname"
      [] k = "createTime" -> "createtime"
      [] OTHER -> k

\* str(key).startswith('_')
StartsWithUnderscore(k) == k \in {"_id"}

\* str(key).startswith('a1b2c3d4e5_')
StartsWithAuditPrefix(k) == k \in {"a1b2c3d4e5_status"}

LogicalFields == {"title", "authors", "journal", "year", "abstract"}

\* chembrain server.py:290-301; zh_* stand for the Chinese-language aliases
ChembrainAliases ==
    [title |-> <<"title", "Title", "paper_title", "zh_title">>,
     authors |-> <<"authors", "Authors", "author", "Authors_list", "zh_authors">>,
     journal |-> <<"journal", "Journal", "journal_name", "journalName", "zh_journal">>,
     year |-> <<"year", "Year", "publication_year", "pub_year", "zh_year">>,
     abstract |-> <<"abstract", "Abstract", "zh_abstract">>]

\* ssebrain server.py:266-270
SsebrainAliases ==
    [title |-> <<"title", "Title">>,
     authors |-> <<"authors", "Authors", "author">>,
     journal |-> <<"journal", "Journal", "journal_name">>,
     year |-> <<"year", "Year", "publication_year">>,
     abstract |-> <<"abstract", "Abstract">>]

\* ssebrain server.py:266-270: the defaults of the innermost get
SsebrainDefaults ==
    [title |-> "unknown_title", authors |-> "unknown_authors",
     journal |-> "unknown_journal", year |-> "", abstract |-> ""]

\* d.get(a1) or d.get(a2) or ... or '' (chembrain server.py:290-301)
RECURSIVE OrChain(_, _)
OrChain(d, aliases) ==
    IF aliases = <<>> THEN ""
    ELSE IF HasKey(d, Head(aliases)) /\ TruthyStr(Item(d, Head(aliases)))
         THEN Item(d, Head(aliases))
         ELSE OrChain(d, Tail(aliases))

\* d.get(a1, d.get(a2, ... default)) (ssebrain server.py:266-270)
RECURSIVE NestedGet(_, _, _)
NestedGet(d, aliases, default) ==
    IF aliases = <<>> THEN default
    ELSE Get(d, Head(aliases), NestedGet(d, Tail(aliases), default))

\* a field the digest does not show
Omitted == [shown |-> FALSE, value |-> ""]

Shown(v) == [shown |-> TRUE, value |-> v]

\* chembrain server.py:290-329: the lines of the logical fields
ChembrainFields(d) ==
    [f \in LogicalFields |->
        LET v == OrChain(d, ChembrainAliases[f])
        IN IF TruthyStr(v) THEN Shown(v) ELSE Omitted]

\* ssebrain server.py:266-293: the title line is always written; the
\* placeholders of authors and journal are not
SsebrainFields(d) ==
    [f \in LogicalFields |->
        LET v == NestedGet(d, SsebrainAliases[f], SsebrainDefaults[f])
        IN IF f = "title" THEN Shown(v)
           ELSE IF TruthyStr(v) /\ v # SsebrainDefaults[f] THEN Shown(v)
           ELSE Omitted]

\* chembrain server.py:332-336
excluded_keys ==
    {"doi", "title", "authors", "author", "journal", "year", "abstract",
     "journal_name", "publication_year", "paper_title", "authors_list",
     "pub_year", "zh_title", "zh_authors", "zh_journal", "zh_year",
     "zh_abstract", "_id", "a1b2c3d4e5_audit_id", "a1b2c3d4e5_is_locked",
     "a1b2c3d4e5_owner_id", "a1b2c3d4e5_project_id", "a1b2c3d4e5_source",
     "a1b2c3d4e5_status", "createTime", "updateTime"}

\* chembrain server.py:339-346 and 358: of the keys used, those whose
\* lower-cased name contains a lower-cased priority name
IsPriority(k) == Lower(k) \in {"smiles"}

\* chembrain server.py:352-356
Listed(e) ==
    /\ Lower(e.key) \notin excluded_keys
    /\ StrStrip(e.value) # ""
    /\ ~StartsWithUnderscore(e.key)
    /\ ~StartsWithAuditPrefix(e.key)

\* chembrain server.py:348-365: the keys of the entry-data section in order
all_fields(d) ==
    LET priority_data == SelectSeq(d, LAMBDA e : Listed(e) /\ IsPriority(e.key))
        normal_data == SelectSeq(d, LAMBDA e : Listed(e) /\ ~IsPriority(e.key))
    IN [i \in DOMAIN (priority_data \o normal_data) |->
           (priority_data \o normal_data)[i].key]

\* chembrain server.py:585-590
CombineData ==
    /\ digest.pc = "combine"
    /\ digest' = [digest EXCEPT
                    !.pc = "generate",
                    !.entry_data = Merge(digest.query_data,
                                         digest.paper_metadata)]
    /\ UNCHANGED <<llm_vars, query_vars, rag_vars, store_vars, disk_vars,
                   last_op, env_vars, store_call, chunker_vars, merge_vars,
                   pool_vars, runs_vars, translation_vars>>

\* chembrain server.py:276-398, ssebrain server.py:253-299
GenerateMetadataSummary ==
    /\ digest.pc = "generate"
    /\ digest' = [digest EXCEPT
                    !.pc = "returned",
                    !.fields = IF digest.system = "chembrain"
                               THEN ChembrainFields(digest.entry_data)
                               ELSE SsebrainFields(digest.entry_data),
                    !.all_fields = IF digest.system = "chembrain"
                                   THEN all_fields(digest.entry_data)
                                   ELSE <<>>]
    /\ UNCHANGED <<llm_vars, query_vars, rag_vars, store_vars, disk_vars,
                   last_op, env_vars, store_call, chunker_vars, merge_vars,
                   pool_vars, runs_vars, translation_vars>>

InitDigest ==
    /\ QueryIdle /\ StoreIdle /\ EnvIdle
    /\ call = IdleCall
    /\ store_call = NoStoreCall /\ chunker = NoChunker
    /\ table_merge = NoTableMerge /\ pool = NoPool
    /\ runs = NoRuns /\ translation = NoTranslation
    /\ \/ \E q \in QueryRows, m \in MetadataRows :
             digest = [NoDigest EXCEPT !.pc = "combine", !.system = "chembrain",
                                       !.query_data = q, !.paper_metadata = m]
       \/ \E m \in QueryRows :
             digest = [NoDigest EXCEPT !.pc = "generate", !.system = "ssebrain",
                                       !.entry_data = m]

NextDigest == CombineData \/ GenerateMetadataSummary

SpecDigest == InitDigest /\ [][NextDigest]_vars

-----------------------------------------------------------------------------
(* Properties of call_llm_api, checked under SpecLLM *)

C5_FatalNotRetried ==
    \A i \in DOMAIN call.log :
        call.log[i] \in {"http_401", "http_422"}
        => /\ i = 1
           /\ Len(call.log) = 1
           /\ call.sleeps = <<>>
           /\ call.pc # "returned"
           /\ call.pc = "raised" => call.exc = call.log[i]

-----------------------------------------------------------------------------
(* Properties of the query handlers, checked under SpecQuery *)

C2_NoIdentifierDropped ==
    (pc = "done" /\ ~other_failure)
    => \A d \in Range(file_ids) \cup Range(dois_without_fulltext) :
          Cardinality({k \in DOMAIN result.summaries :
             result.summaries[k].id = d}) = 1

\* C3: a summarization task never asks more than max_retries times; a task
\* whose max_retries requests all failed leaves exactly one entry, an error
\* text, for its document; the batch hands back one entry per document it
\* read and raises nothing; and a query no other stage of which failed
\* returns SUCCESS with every entry of the batch, whenever one of them is a
\* summary.
C3_FailureIsolated ==
    /\ ~escaped
    /\ task_call.attempts <= LLM_MAX_RETRIES
    /\ (task_call.kind # "none" /\ task_call.failures = LLM_MAX_RETRIES)
       => /\ task_call.attempts = LLM_MAX_RETRIES
          /\ Cardinality({k \in DOMAIN literature_summaries :
                literature_summaries[k].file_id = task_call.file_id}) = 1
          /\ \A i \in DOMAIN literature_summaries :
                literature_summaries[i].file_id = task_call.file_id
                => literature_summaries[i].kind = "gen_error"
    /\ \A d \in Range(literature_data) :
          Cardinality({k \in DOMAIN literature_summaries :
             literature_summaries[k].file_id = d})
             = (IF d \in pending \/ pc = "batch_read" THEN 0 ELSE 1)
    /\ (/\ pc = "done" /\ ~other_failure
        /\ \E i \in DOMAIN literature_summaries :
              literature_summaries[i].kind = "summary")
       => /\ result.code = SUCCESS
          /\ \A i \in DOMAIN literature_summaries :
                Cardinality({k \in DOMAIN result.summaries :
                   /\ result.summaries[k].id = literature_summaries[i].file_id
                   /\ result.summaries[k].kind = literature_summaries[i].kind}) = 1

\* one document exhausted its retries, another was summarized, SUCCESS
C3_Witness ==
    /\ pc = "done" /\ result.code = SUCCESS
    /\ task_call.failures = LLM_MAX_RETRIES
    /\ \E i, j \in DOMAIN result.summaries :
          /\ result.summaries[i].kind = "gen_error"
          /\ result.summaries[i].id = task_call.file_id
          /\ result.summaries[j].kind = "summary"

\* C6: no exception leaves query; a finished query has returned a record
\* {summaries, code} whose code is SUCCESS, NO_RESULTS, NO_LITERATURE or
\* OTHER_ERROR, never REPORT_FAILED.
C6_CodeTaxonomy ==
    /\ ~escaped
    /\ pc = "done"
       => /\ DOMAIN result = {"summaries", "code"}
          /\ result.code \in {SUCCESS, NO_RESULTS, NO_LITERATURE, OTHER_ERROR}
          /\ result.code # REPORT_FAILED

\* a stage raised and the handler answered
C6_Witness ==
    /\ pc = "done" /\ other_failure
    /\ result = [summaries |-> <<>>, code |-> OTHER_ERROR]

\* C7: a finished query whose candidate set is empty returned
\* {[], NO_RESULTS}: the structured query whose relational queries matched
\* nothing, the semantic query that retrieved no chunk.
C7_EmptyCandidates ==
    pc = "done"
    => /\ (/\ system = "structured" /\ n_db_queries > 0 /\ ~other_failure
           /\ dois = <<>> /\ epoxy_entries = {})
          => result = [summaries |-> <<>>, code |-> NO_RESULTS]
       /\ (system = "rag" /\ chunks = <<>>)
          => result = [summaries |-> <<>>, code |-> NO_RESULTS]

\* C8: a translation that fails gives None, and a query whose translation
\* gave None has returned {[], OTHER_ERROR} with no relational query, no
\* fulltext fetch and no summarization task issued, and raised nothing.
C8_TranslationFailure ==
    /\ \A a \in {"api_failure", "not_json"}, n \in TableCounts :
          convert_query_to_filters(a, n).kind = "None"
    /\ filters.kind = "None"
       => /\ pc = "done"
          /\ result = [summaries |-> <<>>, code |-> OTHER_ERROR]
          /\ n_db_queries = 0 /\ n_probes = 0
          /\ task_call = NoTaskCall /\ literature_summaries = <<>>
          /\ ~escaped

C8_Witness ==
    /\ system = "structured" /\ filters.kind = "None" /\ pc = "done"
    /\ result.code = OTHER_ERROR

-----------------------------------------------------------------------------
(* Properties of FAISSVectorStore, checked under SpecIndex *)

\* C9: the id list is as long as the number of vectors the index holds.
C9_LengthsAgree == Len(chunk_ids) = get_total_vectors(index)

\* C10: a load that found a vector artifact and an id-list artifact of
\* different lengths ended with CorruptIndex.
C10_LoadRejectsMismatch ==
    (/\ last_op.op = "load"
     /\ index_file.exists /\ metadata_file.exists
     /\ Len(index_file.vecs) # Len(metadata_file.ids))
    => last_op.exc = "CorruptIndex"

-----------------------------------------------------------------------------
(* Properties of build_index, search and retrieve, checked under SpecSearch *)

\* C11: a call of build_index whose two arguments differ in length, or whose
\* vectors do not have the configured width, raises and leaves the store as
\* it was; every other call returns and leaves the index holding exactly the
\* given vectors and the id list exactly the given ids, position by position.
C11_BuildReplaces ==
    [][store_call'.op = "build" =>
         IF \/ Len(store_call'.embeddings) # Len(store_call'.chunk_ids)
            \/ store_call'.w # EMBEDDING_DIM
         THEN /\ store_call'.exc = "ValueError"
              /\ index' = index /\ chunk_ids' = chunk_ids
         ELSE /\ store_call'.exc = "None"
              /\ index' = [built |-> TRUE, vecs |-> store_call'.embeddings]
              /\ chunk_ids' = store_call'.chunk_ids]_vars

\* a build of two vectors was accepted
C11_Witness ==
    /\ store_call.op = "build" /\ store_call.exc = "None"
    /\ Len(store_call.embeddings) = 2
    /\ index.vecs = store_call.embeddings
    /\ chunk_ids = store_call.chunk_ids

\* C12: after an accepted build_index(vectors, ids), search(vectors[i], 1)
\* returns exactly the one pair (ids[i], 0), for every position i.
C12_SelfMatch ==
    (/\ last_op = [op |-> "build", exc |-> "None"]
     /\ store_call.op = "search" /\ store_call.k = 1)
    => \A i \in DOMAIN index.vecs :
          index.vecs[i] = store_call.q =>
             /\ store_call.exc = "None"
             /\ store_call.results =
                   <<[chunk_id |-> chunk_ids[i], distance |-> 0]>>

\* C12 as the code has it: after an accepted build_index(vectors, ids),
\* search(vectors[i], 1) returns exactly one pair, at distance 0, whose id
\* is the id of a position holding a vector equal to vectors[i]; it is
\* ids[i] when vectors[i] occurs at position i only.
C12_SelfMatchUpToEqualVectors ==
    (/\ last_op = [op |-> "build", exc |-> "None"]
     /\ store_call.op = "search" /\ store_call.k = 1)
    => \A i \in DOMAIN index.vecs :
          index.vecs[i] = store_call.q =>
             /\ store_call.exc = "None"
             /\ \E j \in DOMAIN index.vecs :
                   /\ index.vecs[j] = index.vecs[i]
                   /\ store_call.results =
                         <<[chunk_id |-> chunk_ids[j], distance |-> 0]>>

\* one vector built at two positions under two ids, searched with k = 1:
\* the id of the first position came back
C12_Witness ==
    /\ last_op = [op |-> "build", exc |-> "None"]
    /\ store_call.op = "search" /\ store_call.k = 1
    /\ Len(index.vecs) = 2 /\ Len(chunk_ids) = 2
    /\ index.vecs[1] = store_call.q /\ index.vecs[2] = store_call.q
    /\ chunk_ids[1] # chunk_ids[2]
    /\ store_call.results = <<[chunk_id |-> chunk_ids[1], distance |-> 0]>>

\* C13: the list a completed retrieve returns holds no chunk_id twice and is
\* in non-decreasing order of distance, whatever the index, the id list, the
\* chunk table, the query and k are.
C13_UniqueAndSorted ==
    (store_call.op = "retrieve" /\ store_call.exc = "None")
    => /\ \A i, j \in DOMAIN chunks :
             i # j => chunks[i].chunk_id # chunks[j].chunk_id
       /\ \A i, j \in DOMAIN chunks :
             i < j => chunks[i].distance <= chunks[j].distance

\* two chunks came back, the nearer one first although its id is the larger
C13_Witness ==
    /\ store_call.op = "retrieve" /\ store_call.exc = "None"
    /\ Len(chunks) = 2
    /\ chunks[1].distance < chunks[2].distance
    /\ chunks[1].chunk_id > chunks[2].chunk_id

-----------------------------------------------------------------------------
(* Properties of TextChunker.chunk_text, checked under SpecChunk *)

\* C14: when chunk_text returns, the buffer the loop left is the last chunk
\* of the result exactly when it is not empty and the estimated size of its
\* text is at least min_chunk_size; and with min_chunk_size <= chunk_size
\* (as 200 <= 768) a text whose estimated size is below min_chunk_size gives
\* no chunk at all.
C14_FinalBufferRule ==
    chunker.pc = "returned" =>
       LET buffer == Join(chunker.current_chunk)
       IN /\ chunker.current_chunk # <<>> =>
                (chunker.final_saved
                    <=> _estimate_tokens(buffer) >= chunker.min_chunk_size)
          /\ chunker.current_chunk = <<>> => ~chunker.final_saved
          /\ chunker.final_saved =>
                chunker.chunks[Len(chunker.chunks)].text = buffer
          /\ (/\ _estimate_tokens(chunker.text) < chunker.min_chunk_size
              /\ chunker.min_chunk_size <= chunker.chunk_size)
             => chunker.chunks = <<>>

\* a text with a paragraph in it, below min_chunk_size, came back without a
\* chunk
C14_Witness ==
    /\ chunker.pc = "returned"
    /\ chunker.current_chunk # <<>>
    /\ Len(chunker.text) > Len(Join(chunker.current_chunk))
    /\ _estimate_tokens(chunker.text) < chunker.min_chunk_size
    /\ chunker.min_chunk_size <= chunker.chunk_size
    /\ ~chunker.final_saved /\ chunker.chunks = <<>>

\* C15: every chunk of the result but the last has token_count <= chunk_size.
C15_NonFinalBounded ==
    chunker.pc = "returned" =>
       \A k \in 1..(Len(chunker.chunks) - 1) :
          chunker.chunks[k].token_count <= chunker.chunk_size

\* C16: the spans of the result leave no stretch of the text longer than one
\* overlap window uncovered between the start of the text and the end of
\* the last chunk, and each chunk starts no later than one overlap window
\* after the end of the chunk before it.
C16_OverlappingCoverage ==
    (chunker.pc = "returned" /\ chunker.chunks # <<>>) =>
       LET cs == chunker.chunks
           window == (chunker.overlap_size * 4) \div 3
           last_end == cs[Len(cs)].end_char
           Covered(p) == \E k \in DOMAIN cs :
                            cs[k].start_char <= p /\ p < cs[k].end_char
       IN /\ \A k \in 1..(Len(cs) - 1) :
                cs[k + 1].start_char <= cs[k].end_char + window
          /\ \A p \in 0..(last_end - 1) :
                \E d \in 0..window : p + d >= last_end \/ Covered(p + d)

-----------------------------------------------------------------------------
(* Properties of the multi-table loop, checked under SpecTables *)

\* C17: after the loop over the tables, dois holds every identifier some
\* table returned, each once; query_data_dict holds every key some table
\* returned a row for, with the row of the last table that returned it; and
\* every table of the list was queried, the ones after a failed query too.
C17_UnionAndLaterWins ==
    table_merge.pc = "merged" =>
       LET rs == table_merge.returned IN
       /\ Len(rs) = table_merge.ntables
       /\ Range(table_merge.dois) =
             UNION {Range(rs[t].papers) : t \in DOMAIN rs}
       /\ \A i, j \in DOMAIN table_merge.dois :
             i # j => table_merge.dois[i] # table_merge.dois[j]
       /\ DOMAIN table_merge.query_data_dict =
             UNION {rs[t].rows : t \in DOMAIN rs}
       /\ \A k \in DOMAIN table_merge.query_data_dict :
             LET t == table_merge.query_data_dict[k] IN
             /\ k \in rs[t].rows
             /\ \A u \in DOMAIN rs : u > t => k \notin rs[u].rows

\* two tables returned the same identifier with a row each; the identifier
\* is in dois once and its row is the second table's
C17_Witness ==
    /\ table_merge.pc = "merged"
    /\ Len(table_merge.returned) = 2
    /\ \E k \in DOIs :
          /\ k \in Range(table_merge.returned[1].papers)
          /\ k \in Range(table_merge.returned[2].papers)
          /\ k \in table_merge.returned[1].rows
          /\ k \in table_merge.returned[2].rows
          /\ table_merge.query_data_dict[k] = 2
    /\ Len(table_merge.dois) = 1

-----------------------------------------------------------------------------
(* The cap on summarization tasks, checked under SpecQuery *)

\* C18: in a structured query the ids handed to the summarization batch are
\* the first MAX_FULLTEXT_SUMMARIES ids, in input order, of those the probe
\* saw text for; no more tasks than that are launched; and an id beyond the
\* cap is in no list the query works on afterwards and has no entry, summary
\* or digest, in what the query returns.
C18_CapOnSummaries ==
    system = "structured" =>
       LET has_fulltext == SelectSeq(dois, LAMBDA d : d \in probe_has)
           kept == Prefix(has_fulltext, MAX_FULLTEXT_SUMMARIES)
           excess == Range(has_fulltext) \ Range(kept)
       IN /\ pc \notin {"start", "query_db", "probe", "summarize"}
             => dois_with_fulltext = kept
          /\ file_ids \in {<<>>, kept}
          /\ Len(literature_data) <= MAX_FULLTEXT_SUMMARIES
          /\ Cardinality(pending) <= MAX_FULLTEXT_SUMMARIES
          /\ Len(literature_summaries) <= MAX_FULLTEXT_SUMMARIES
          /\ \A e \in excess :
                /\ e \notin Range(file_ids) \cup Range(literature_data)
                /\ e \notin pending
                /\ e \notin Range(dois_without_fulltext)
                /\ \A i \in DOMAIN literature_summaries :
                      literature_summaries[i].file_id # e
                /\ \A i \in DOMAIN summary_texts : summary_texts[i].id # e
                /\ \A i \in DOMAIN result.summaries : result.summaries[i].id # e

\* the probe saw text for more ids than the cap; the query returned SUCCESS
\* with one summary per kept id and nothing for the id beyond the cap
C18_Witness ==
    /\ system = "structured" /\ pc = "done" /\ result.code = SUCCESS
    /\ Cardinality(probe_has) = MAX_FULLTEXT_SUMMARIES + 1
    /\ Len(dois_with_fulltext) = MAX_FULLTEXT_SUMMARIES
    /\ Len(literature_summaries) = MAX_FULLTEXT_SUMMARIES
    /\ Len(result.summaries) = MAX_FULLTEXT_SUMMARIES
    /\ \E e \in probe_has :
          \A i \in DOMAIN result.summaries : result.summaries[i].id # e

-----------------------------------------------------------------------------
(* Properties of the executor, checked under SpecPool and SpecPoolFair *)

\* C19: in every query at most max_workers of its tasks run at one time; a
\* query's queued task can start whenever fewer than max_workers of that
\* query's own tasks run, whatever the other query's tasks do; the list of
\* summaries changes only by the collecting step, which appends one entry
\* for a finished task; and the list returned has exactly one entry per
\* submitted task.
C19_BoundedPoolOneEntryEach ==
    /\ [](\A q \in Queries :
            /\ Cardinality(Running(pool[q])) <= pool[q].max_workers
            /\ (/\ pool[q].pc = "collecting"
                /\ \E t \in DOMAIN pool[q].tasks : pool[q].tasks[t].st = "queued"
                /\ Cardinality(Running(pool[q])) < pool[q].max_workers)
               => ENABLED (\E t \in 1..MaxPoolTasks : WorkerStart(q, t))
            /\ pool[q].pc = "returned" =>
                  /\ Len(pool[q].summaries) = Len(pool[q].tasks)
                  /\ \A t \in DOMAIN pool[q].tasks :
                        Cardinality({i \in DOMAIN pool[q].summaries :
                                       pool[q].summaries[i].task = t}) = 1)
    /\ [][\A q \in Queries :
            pool'[q].summaries # pool[q].summaries =>
               \E t \in DOMAIN pool[q].tasks :
                  /\ pool[q].tasks[t].st = "done"
                  /\ pool'[q].tasks[t].st = "collected"
                  /\ pool'[q].summaries =
                        Append(pool[q].summaries,
                               [task |-> t, kind |-> pool[q].tasks[t].kind])
                  /\ \A u \in DOMAIN pool[q].tasks \ {t} :
                        pool'[q].tasks[u] = pool[q].tasks[u]]_vars

\* query 1 has its one worker busy and a task waiting while the task of
\* query 2 runs on that query's own worker
C19_Witness ==
    /\ pool[1].pc = "collecting" /\ pool[1].max_workers = 1
    /\ Cardinality(Running(pool[1])) = 1
    /\ \E t \in DOMAIN pool[1].tasks : pool[1].tasks[t].st = "queued"
    /\ pool[2].pc = "collecting"
    /\ Cardinality(Running(pool[2])) = 1

\* C20: a batch that was submitted returns, provided its threads are
\* scheduled and every request comes back; when it has returned every task
\* it submitted has finished and been collected; no task makes more than
\* max_retries generation requests, so the batch makes at most
\* max_retries times the number of its documents.
C20_BatchCompletes ==
    /\ \A q \in Queries :
          (pool[q].pc = "collecting") ~> (pool[q].pc = "returned")
    /\ [](\A q \in Queries :
            LET b == pool[q]
                RECURSIVE Calls(_)
                Calls(t) == IF t = 0 THEN 0 ELSE b.tasks[t].calls + Calls(t - 1)
            IN /\ \A t \in DOMAIN b.tasks : b.tasks[t].calls <= b.max_retries
               /\ Calls(Len(b.tasks)) <= b.max_retries * Len(b.tasks)
               /\ b.pc = "returned" =>
                     \A t \in DOMAIN b.tasks :
                        /\ b.tasks[t].st = "collected"
                        /\ b.tasks[t].kind \in {"summary", "gen_error"})

\* a batch of two documents returned after one of its tasks had used both
\* of its two requests and failed, and the other had answered at once
C20_Witness ==
    /\ pool[1].pc = "returned" /\ pool[1].max_retries = 2
    /\ Len(pool[1].tasks) = 2
    /\ \E t, u \in DOMAIN pool[1].tasks :
          /\ pool[1].tasks[t].calls = 2 /\ pool[1].tasks[t].kind = "gen_error"
          /\ pool[1].tasks[u].calls = 1 /\ pool[1].tasks[u].kind = "summary"
    /\ Len(pool[1].summaries) = 2

-----------------------------------------------------------------------------
(* Further properties of TextChunker.chunk_text, checked under SpecChunk *)

\* C27: when chunk_text returns, every paragraph of the text that fits
\* chunk_size, and for a larger paragraph each of its sentences and the
\* fragment after its last sentence end (the whole paragraph when it has
\* none), occurs in the text of an emitted chunk or in the buffer the final
\* step discarded.
C27_OnlyTrailingBufferLost ==
    chunker.pc = "returned" =>
       LET outputs == {chunker.chunks[k].text : k \in DOMAIN chunker.chunks}
                         \cup {Join(chunker.current_chunk)}
           Appears(u) == \E o \in outputs : Find(o, u, 0) # -1
           Fragment(p) ==
               LET ends == {k \in 1..Len(p) : IsSentenceEnd(p[k])}
                   last == IF ends = {} THEN 0
                           ELSE CHOOSE a \in ends : \A b \in ends : a >= b
               IN strip(SubSeq(p, last + 1, Len(p)))
       IN \A i \in DOMAIN chunker.paragraphs :
             LET p == chunker.paragraphs[i] IN
             IF _estimate_tokens(p) <= chunker.chunk_size
             THEN Appears(p)
             ELSE /\ \A j \in DOMAIN _split_into_sentences(p) :
                        Appears(_split_into_sentences(p)[j])
                  /\ Fragment(p) # <<>> => Appears(Fragment(p))

\* C28: every emitted chunk has 0 <= start_char <= end_char <= len(text), the
\* text reads the chunk's first unit at start_char, and no chunk has the
\* start_char of a chunk emitted before it.
C28_SpansInsideText ==
    chunker.pc = "returned" =>
       \A k \in DOMAIN chunker.chunks :
          LET c == chunker.chunks[k] IN
          /\ 0 <= c.start_char /\ c.start_char <= c.end_char
          /\ c.end_char <= Len(chunker.text)
          /\ SubSeq(chunker.text, c.start_char + 1,
                    c.start_char + Len(c.first)) = c.first
          /\ \A j \in 1..(k - 1) :
                chunker.chunks[j].start_char # c.start_char

\* C30: the token_count of every emitted chunk is the estimate of the
\* chunk's own text, and the chunk saved by the final step has token_count
\* >= min_chunk_size.
C30_TokenCountOfText ==
    chunker.pc = "returned" =>
       /\ \A k \in DOMAIN chunker.chunks :
             chunker.chunks[k].token_count =
                _estimate_tokens(chunker.chunks[k].text)
       /\ chunker.final_saved =>
             chunker.chunks[Len(chunker.chunks)].token_count
                >= chunker.min_chunk_size

-----------------------------------------------------------------------------
(* A further property of Retriever.retrieve, checked under SpecSearch *)

\* C29: every chunk a completed retrieve returns carries the smallest
\* distance among the hits the search gave for its chunk_id, also when the
\* index holds several vectors under that chunk_id, and the chunks are in the
\* order of those smallest distances.
C29_BestHitDistance ==
    (store_call.op = "retrieve" /\ store_call.exc = "None")
    => LET hits(c) == {i \in DOMAIN store_call.results :
                           store_call.results[i].chunk_id = c}
           best(c) == CHOOSE d \in {store_call.results[i].distance : i \in hits(c)} :
                         \A i \in hits(c) : d <= store_call.results[i].distance
       IN /\ \A n \in DOMAIN chunks :
                /\ hits(chunks[n].chunk_id) # {}
                /\ chunks[n].distance = best(chunks[n].chunk_id)
          /\ \A n, m \in DOMAIN chunks :
                n < m => best(chunks[n].chunk_id) <= best(chunks[m].chunk_id)

-----------------------------------------------------------------------------
(* Further properties of the query handlers, checked under SpecQuery *)

\* C25: a finished query returned SUCCESS only with at least one entry that
\* is a produced summary or a digest; when every summarization task of the
\* batch ended in failure and the result holds no digest, the code is
\* NO_LITERATURE.
C25_SuccessNeedsGenuineEntry ==
    pc = "done" =>
       /\ result.code = SUCCESS
          => \E k \in DOMAIN result.summaries :
                result.summaries[k].kind \in {"summary", "digest", "epoxy"}
       /\ (/\ ~other_failure
           /\ literature_summaries # <<>>
           /\ \A i \in DOMAIN literature_summaries :
                 literature_summaries[i].kind = "gen_error"
           /\ \A k \in DOMAIN result.summaries :
                 result.summaries[k].kind \notin {"digest", "epoxy"})
          => result.code = NO_LITERATURE

-----------------------------------------------------------------------------
(* A property of two calls of StructuredSearchSystem.query, checked under
   SpecTwoRuns *)

\* C26: two calls of query with the same filters and the same responses of
\* the relational store, the fulltext provider and the generation API
\* summarize the same set of identifiers and return the same code and the
\* same multiset of entries; in particular the identifiers the cap retains
\* are the same in both calls.
C26_SameInputsSameOutputs ==
    (runs.run # <<>> /\ \A r \in 1..2 : runs.run[r].pc = "done")
    => /\ Range(runs.run[1].dois_with_fulltext) = Range(runs.run[2].dois_with_fulltext)
       /\ runs.run[1].code = runs.run[2].code
       /\ Len(runs.run[1].summary_texts) = Len(runs.run[2].summary_texts)
       /\ Range(runs.run[1].summary_texts) = Range(runs.run[2].summary_texts)

-----------------------------------------------------------------------------
(* A property of the filter normalisation, checked under SpecTranslation *)

\* C21: every shape of answer is normalised before the table queries are
\* issued: a bare filter object (leaf or composite, no tables key) gives one
\* query of the default table with that object; a list of predicates, as the
\* filters of a table or as the whole answer, reaches the executor as the
\* AND-composite of its elements in order (a list of one predicate as that
\* predicate or as the composite of it); a composite filter reaches the
\* executor unchanged.
C21_ShapesNormalised ==
    translation.pc = "queried" =>
       LET r == translation.response
           q == translation.executed
           Folded(l, x) ==
              \/ x = Composite("and", l.sub)
              \/ Len(l.sub) = 1 /\ x = l.sub[1]
       IN /\ r.kind \in {"leaf", "composite"}
             => q = <<[table_name |-> "polym00", filters |-> r]>>
          /\ (r.kind = "list" /\ r.sub # <<>>)
             => /\ Len(q) = 1
                /\ q[1].table_name = "polym00"
                /\ Folded(r, q[1].filters)
          /\ (r.kind = "wrapper" /\ r.sub[1].kind = "list" /\ r.sub[1].sub # <<>>)
             => /\ Len(q) = 1
                /\ Folded(r.sub[1], q[1].filters)
          /\ r.kind = "tables"
             => /\ Len(q) = Len(r.sub)
                /\ \A i \in DOMAIN r.sub :
                      LET x == r.sub[i].sub[1] IN
                      /\ (x.kind = "list" /\ x.sub # <<>>) => Folded(x, q[i].filters)
                      /\ x.kind \in {"leaf", "composite"} => q[i].filters = x

-----------------------------------------------------------------------------
(* Properties of the metadata digest, checked under SpecDigest *)

\* C22: in a digest, each of title, authors, journal, year and abstract has
\* the value of the first alias, in the alias order of the function, whose
\* value in the row is not empty; an alias present with an empty value is
\* passed over for a later one, and a field is left out only when every alias
\* is missing or empty.
C22_FirstNonEmptyAlias ==
    digest.pc = "returned" =>
       LET d == digest.entry_data
           aliases == IF digest.system = "chembrain" THEN ChembrainAliases
                      ELSE SsebrainAliases
       IN \A f \in LogicalFields :
             LET filled == {i \in DOMAIN aliases[f] :
                               /\ HasKey(d, aliases[f][i])
                               /\ Item(d, aliases[f][i]) # ""}
                 first == CHOOSE i \in filled : \A j \in filled : i <= j
             IN /\ filled # {}
                   => digest.fields[f] = Shown(Item(d, aliases[f][first]))
                /\ ~digest.fields[f].shown => filled = {}

\* C23: the entry-data section of a chembrain digest lists no system or
\* internal key (_id, createTime, updateTime, the a1b2c3d4e5_ audit keys, a
\* key that starts with an underscore) and no alias of title, authors,
\* journal, year or abstract; it lists every other key whose value is not
\* blank; and every domain-priority key comes before every generic key.
C23_AdditionalFields ==
    (digest.pc = "returned" /\ digest.system = "chembrain") =>
       LET d == digest.entry_data
           listed == digest.all_fields
           Internal(k) ==
              \/ k \in {"_id", "createTime", "updateTime"}
              \/ StartsWithAuditPrefix(k)
              \/ StartsWithUnderscore(k)
           Alias(k) ==
              \E f \in LogicalFields :
                 \E i \in DOMAIN ChembrainAliases[f] : ChembrainAliases[f][i] = k
       IN /\ \A i \in DOMAIN listed : ~Internal(listed[i]) /\ ~Alias(listed[i])
          /\ \A i \in DOMAIN d :
                (/\ ~Internal(d[i].key) /\ ~Alias(d[i].key)
                 /\ StrStrip(d[i].value) # "")
                => \E j \in DOMAIN listed : listed[j] = d[i].key
          /\ \A i, j \in DOMAIN listed :
                (i < j /\ IsPriority(listed[j])) => IsPriority(listed[i])

\* C24: the data combined for an identifier without fulltext has, for every
\* key of its query-result row, the value of that row, and the value of the
\* paper-metadata record only for the keys the row lacks.
C24_QueryDataFirst ==
    (digest.system = "chembrain" /\ digest.pc \in {"generate", "returned"}) =>
       /\ \A i \in DOMAIN digest.query_data :
             Item(digest.entry_data, digest.query_data[i].key)
                = digest.query_data[i].value
       /\ \A i \in DOMAIN digest.paper_metadata :
             ~HasKey(digest.query_data, digest.paper_metadata[i].key)
             => Item(digest.entry_data, digest.paper_metadata[i].key)
                   = digest.paper_metadata[i].value

====
